---------------------------- MODULE Spec2Model ----------------------------
(***************************************************************************)
(* A model of cargo-resolvediff: the graph walker (resolve.rs), the diff   *)
(* generator (diff.rs), the manifest editing layer (toml_edit.rs,          *)
(* major_updates.rs) and the update tasks that drive them (main.rs).       *)
(***************************************************************************)
EXTENDS Integers, Sequences, FiniteSets, TLC

VARIABLES
    task,                   \* which task of main.rs this behaviour runs
    pc,                     \* position of the running task
    world,                  \* what `cargo metadata` reports for the workspace now
    platforms,              \* AppContext.platforms
    include_all_platforms,  \* AppContext.include_all_platforms
    walk,                   \* index of the IndexedMetadata being walked
    todos,                  \* the work queue of resolve_platform
    included,               \* the Included map the walks fill
    before,                 \* the Resolved taken before the update
    after,                  \* the Resolved taken after the update
    diff,                   \* the Diff between before and after
    crates_io,              \* the versions crates.io lists per crate name
    disk,                   \* the text of each workspace manifest file
    manifests,              \* ManifestSet.manifests, the opened MutableTomlFiles
    dependencies,           \* ManifestDependencySet.dependencies
    direct_dependencies,    \* the candidates the update loop still has to try
    candidate,              \* the candidate of the running iteration
    major_updates,          \* the candidates whose update went through
    failed_major_updates,   \* the candidates whose update was rejected
    commits,                \* the manifest texts of each git commit made
    args,                   \* the arguments of a function called on its own
    returned                \* what the last call returned

resolveVars == <<task, pc, world, platforms, include_all_platforms, walk, todos,
                 included, before, after, diff>>

resolveVars_but_pc == <<task, world, platforms, include_all_platforms, walk, todos,
                        included, before, after, diff>>

majorVars == <<crates_io, disk, manifests, dependencies, direct_dependencies,
               candidate, major_updates, failed_major_updates, commits>>

callVars == <<args, returned>>

vars == <<resolveVars, majorVars, callVars>>

(***************************************************************************)
(* Generic helpers: Option, ordered maps, sequences.                       *)
(***************************************************************************)
None == [tag |-> "None"]
Some(x) == [tag |-> "Some", value |-> x]

EmptyMap == [x \in {} |-> x]
Put(f, k, v) == [x \in (DOMAIN f) \cup {k} |-> IF x = k THEN v ELSE f[x]]
Get(f, k, default) == IF k \in DOMAIN f THEN f[k] ELSE default

\* the elements of a sequence
Range(seq) == {seq[i] : i \in 1..Len(seq)}

RECURSIVE Concat(_)
Concat(seqs) == IF seqs = <<>> THEN <<>> ELSE Head(seqs) \o Concat(Tail(seqs))

RECURSIVE FilterMap(_, _)
\* iterator filter_map over a sequence of Options
FilterMap(opts, i) ==
    IF i > Len(opts) THEN <<>>
    ELSE IF opts[i].tag = "None" THEN FilterMap(opts, i + 1)
    ELSE <<opts[i].value>> \o FilterMap(opts, i + 1)

(***************************************************************************)
(* Bounds of the model.                                                    *)
(***************************************************************************)
\* the longest work queue a walk may build (the Vec itself is unbounded)
MaxTodos == 6

(***************************************************************************)
(* semver::Version, ordered by (major, minor, patch, pre); pre = 0 is the  *)
(* empty prerelease, which sorts above every prerelease pre > 0.           *)
(***************************************************************************)
Ver(major, minor, patch) == [major |-> major, minor |-> minor, patch |-> patch, pre |-> 0]

PreLess(a, b) == IF a = 0 THEN FALSE ELSE IF b = 0 THEN TRUE ELSE a < b

VersionLess(a, b) ==
    IF a.major # b.major THEN a.major < b.major
    ELSE IF a.minor # b.minor THEN a.minor < b.minor
    ELSE IF a.patch # b.patch THEN a.patch < b.patch
    ELSE PreLess(a.pre, b.pre)

VersionLeq(a, b) == a = b \/ VersionLess(a, b)

(***************************************************************************)
(* resolve.rs: DependencyKind.                                             *)
(***************************************************************************)
DependencyKind == [run_at_build : BOOLEAN, only_debug_builds : BOOLEAN]

NORMAL == [run_at_build |-> FALSE, only_debug_builds |-> FALSE]
DEVELOPMENT == [run_at_build |-> FALSE, only_debug_builds |-> TRUE]
BUILD == [run_at_build |-> TRUE, only_debug_builds |-> FALSE]

KindFrom(dependency_kind) ==
    CASE dependency_kind = "normal" -> NORMAL
      [] dependency_kind = "development" -> DEVELOPMENT
      [] dependency_kind = "build" -> BUILD

\* variant of then that takes only_debug_builds from the edge alone
then_with_debug_of_next(self, next) ==
    [run_at_build |-> self.run_at_build \/ next.run_at_build,
     only_debug_builds |-> next.only_debug_builds]

then(self, next) ==
    [run_at_build |-> self.run_at_build \/ next.run_at_build,
     only_debug_builds |-> self.only_debug_builds \/ next.only_debug_builds]

merged_with(self, other) ==
    [run_at_build |-> self.run_at_build \/ other.run_at_build,
     only_debug_builds |-> self.only_debug_builds /\ other.only_debug_builds]

RECURSIVE ReduceMerged(_, _, _)
\* Iterator::reduce(DependencyKind::merged_with) over kinds[i..], acc so far
ReduceMerged(kinds, i, acc) ==
    IF i > Len(kinds) THEN acc
    ELSE ReduceMerged(kinds, i + 1, merged_with(acc, kinds[i]))

(***************************************************************************)
(* Paths are sequences of components.                                      *)
(***************************************************************************)
StartsWith(path, prefix) ==
    /\ Len(prefix) <= Len(path)
    /\ SubSeq(path, 1, Len(prefix)) = prefix

shorten_path_relative_to(relative, path) ==
    IF StartsWith(path, relative)
    THEN SubSeq(path, Len(relative) + 1, Len(path))
    ELSE path

Parent(path) == SubSeq(path, 1, Len(path) - 1)

(***************************************************************************)
(* The packages `cargo metadata` can report.  "w" is the workspace default *)
(* member, "l" a local path dependency, "p" and "c" registry crates.       *)
(***************************************************************************)
WorkspaceRoot == <<"ws">>

PackageIds == {"w", "l", "p", "c"}

PackageTable ==
    [w |-> [name |-> "w", version |-> Ver(0, 1, 0), source |-> None,
            manifest_path |-> <<"ws", "w", "Cargo.toml">>],
     l |-> [name |-> "l", version |-> Ver(0, 1, 0), source |-> None,
            manifest_path |-> <<"ws", "l", "Cargo.toml">>],
     p |-> [name |-> "p", version |-> Ver(1, 0, 0), source |-> Some("registry"),
            manifest_path |-> <<"cargo", "p-1.0.0", "Cargo.toml">>],
     c |-> [name |-> "c", version |-> Ver(1, 0, 0), source |-> Some("registry"),
            manifest_path |-> <<"cargo", "c-1.0.0", "Cargo.toml">>]]

AllPlatforms == {"X", "Y", "Z"}

\* One declared dependency edge: the DepKindInfo entries cargo reports for it, each
\* with the platforms its `target` cfg selects.
EdgeLabels ==
    [none |-> <<>>,
     N  |-> <<[kind |-> "normal", target |-> AllPlatforms]>>,
     D  |-> <<[kind |-> "development", target |-> AllPlatforms]>>,
     B  |-> <<[kind |-> "build", target |-> AllPlatforms]>>,
     ND |-> <<[kind |-> "normal", target |-> AllPlatforms],
              [kind |-> "development", target |-> AllPlatforms]>>,
     NY |-> <<[kind |-> "normal", target |-> {"Y"}]>>,
     NZ |-> <<[kind |-> "normal", target |-> {"Z"}]>>]

\* The declared edges of a world, per package in the order cargo lists them.
DeclaredDeps(w, pkg) ==
    CASE pkg = "w" -> <<[pkg |-> "l", label |-> w.wl], [pkg |-> "p", label |-> w.wp],
                        [pkg |-> "c", label |-> w.wc]>>
      [] pkg = "l" -> <<[pkg |-> "p", label |-> w.lp], [pkg |-> "w", label |-> w.lw]>>
      [] pkg = "p" -> <<[pkg |-> "c", label |-> w.pc]>>
      [] pkg = "c" -> <<[pkg |-> "p", label |-> w.cp]>>

Worlds ==
    [wl : {"none", "N", "D"},
     wp : {"none", "N", "D", "B"},
     lp : {"none", "N", "B", "ND"},
     pc : {"none", "N", "D", "NY", "NZ"},
     cp : {"none", "N"},
     lw : {"none", "N"},
     wc : {"none"},
     proc_macro : BOOLEAN]


(***************************************************************************)
(* indexed.rs: IndexedMetadata::gather.  `cargo metadata` lists every      *)
(* package of the lockfile; --filter-platform narrows the resolve edges.   *)
(***************************************************************************)
Targets(w, pkg) ==
    CASE pkg = "p" -> IF w.proc_macro
                      THEN <<[kind |-> <<"proc-macro">>]>>
                      ELSE <<[kind |-> <<"lib">>]>>
      [] pkg = "c" -> <<[kind |-> <<"lib">>], [kind |-> <<"custom-build">>]>>
      [] pkg = "l" -> <<[kind |-> <<"lib">>]>>
      [] pkg = "w" -> <<[kind |-> <<"bin">>], [kind |-> <<"test">>]>>

\* the packages a world declares as dependencies of pkg, on any platform
DeclaredTargets(w, pkg) ==
    {DeclaredDeps(w, pkg)[i].pkg :
        i \in {j \in 1..Len(DeclaredDeps(w, pkg)) : DeclaredDeps(w, pkg)[j].label # "none"}}

\* one more level of declared dependencies
Grow(w, seen) == seen \cup UNION {DeclaredTargets(w, pkg) : pkg \in seen}

\* the packages a lockfile holds: everything the workspace members declare,
\* transitively (three levels close the four packages)
LockedPackages(w) == Grow(w, Grow(w, Grow(w, {"w", "l"})))

NodeDeps(w, platform, pkg) ==
    LET declared == DeclaredDeps(w, pkg)
        kinds(d) == SelectSeq(EdgeLabels[d.label],
                              LAMBDA info : platform.tag = "None" \/ platform.value \in info.target)
        opt(d) == IF kinds(d) = <<>> THEN None
                  ELSE Some([pkg |-> d.pkg, dep_kinds |-> kinds(d)])
    IN FilterMap([i \in 1..Len(declared) |-> opt(declared[i])], 1)

gather(w, platform) ==
    LET ids == LockedPackages(w)
    IN [platform |-> platform,
        packages |-> [id \in ids |-> [id |-> id,
                                      name |-> PackageTable[id].name,
                                      version |-> PackageTable[id].version,
                                      source |-> PackageTable[id].source,
                                      manifest_path |-> PackageTable[id].manifest_path,
                                      targets |-> Targets(w, id)]],
        resolve |-> [id \in ids |-> [id |-> id, deps |-> NodeDeps(w, platform, id)]],
        workspace_root |-> WorkspaceRoot,
        workspace_members |-> <<"w", "l">>,
        workspace_default_members |-> Some(<<"w">>)]

get_workspace_default_members(metadata) ==
    IF metadata.workspace_default_members.tag = "Some"
    THEN metadata.workspace_default_members.value
    ELSE metadata.workspace_members

(***************************************************************************)
(* resolve.rs: AnyCrateIdent, SpecificAnyCrateIdent.                       *)
(***************************************************************************)
from_package(relative, package) ==
    IF package.source.tag = "Some"
    THEN [tag |-> "CratesIo", name |-> package.name]
    ELSE [tag |-> "Local",
          path |-> shorten_path_relative_to(relative, Parent(package.manifest_path))]

with_version(ident, version) ==
    IF ident.tag = "CratesIo"
    THEN [tag |-> "CratesIo", name |-> ident.name, version |-> version]
    ELSE [tag |-> "Local", path |-> ident.path]

(***************************************************************************)
(* resolve.rs: Resolved::resolve_platform, one iteration of the work loop  *)
(* per step.                                                               *)
(***************************************************************************)
\* the initial work queue: one Todo per workspace default member
SeedTodos(metadata) ==
    LET members == get_workspace_default_members(metadata)
    IN [i \in 1..Len(members) |->
          [kind |-> NORMAL,
           incoming_edge |->
               [tag |-> "Workspace",
                path |-> shorten_path_relative_to(metadata.workspace_root,
                            metadata.packages[members[i]].manifest_path)],
           pkg |-> members[i]]]

TargetKinds(package) == Concat([i \in 1..Len(package.targets) |-> package.targets[i].kind])

HasTargetKind(package, kind) ==
    \E i \in 1..Len(TargetKinds(package)) : TargetKinds(package)[i] = kind

\* package_kind: the incoming kind, with the proc-macro override
PackageKind(todo, is_proc_macro) ==
    IF is_proc_macro THEN [todo.kind EXCEPT !.run_at_build = TRUE] ELSE todo.kind

\* the `if let AnyCrateIdent::CratesIo` block: the entry after this visit, and whether
\* the walk goes on to the package's dependencies
RecordVisit(inc, metadata, todo, name, package, package_kind, has_build_rs, is_proc_macro) ==
    LET versions == Get(inc, name, EmptyMap)
        inserted_new == package.version \notin DOMAIN versions
        version == IF inserted_new
                   THEN [kind |-> package_kind,
                         has_build_rs |-> has_build_rs,
                         is_proc_macro |-> is_proc_macro,
                         reasons |-> EmptyMap,
                         platforms |-> {}]
                   ELSE versions[package.version]
        merged == merged_with(version.kind, package_kind)
        new_kind == merged # version.kind
        here == IF metadata.platform.tag = "Some" THEN {metadata.platform.value} ELSE {}
        reasons == IF todo.incoming_edge.tag = "Workspace"
                   THEN version.reasons
                   ELSE Put(version.reasons, todo.incoming_edge.reason,
                            Get(version.reasons, todo.incoming_edge.reason, {}) \cup here)
        new_platform == /\ metadata.platform.tag = "Some"
                        /\ metadata.platform.value \notin version.platforms
        entry == [version EXCEPT !.kind = merged,
                                 !.reasons = reasons,
                                 !.platforms = version.platforms \cup here]
    IN [included |-> Put(inc, name, Put(versions, package.version, entry)),
        explore |-> inserted_new \/ new_kind \/ new_platform]

\* variant of the filter that lets every kind of an edge through
AdmissibleKindsOfAnyParent(todo, dep) ==
    SelectSeq(dep.dep_kinds, LAMBDA kind : TRUE)

\* the filter on an edge's kinds: "Dev dependencies of dependencies are not relevant"
AdmissibleKinds(todo, dep) ==
    SelectSeq(dep.dep_kinds,
              LAMBDA kind : todo.incoming_edge.tag = "Workspace"
                            \/ kind.kind # "development")

\* variant that records the parent as intermediate_root_dependency on every edge that
\* does not leave a workspace seed
ChildTodoNamingParent(todo, package_kind, dep_parent, dep) ==
    LET admissible == AdmissibleKinds(todo, dep)
        mapped == [i \in 1..Len(admissible) |->
                      then(package_kind, KindFrom(admissible[i].kind))]
    IN IF Len(admissible) = 0 THEN None
       ELSE Some([kind |-> ReduceMerged(mapped, 2, mapped[1]),
                  incoming_edge |->
                      [tag |-> "Dependency",
                       reason |-> [kind |-> package_kind,
                                   root |-> IF todo.incoming_edge.tag = "Workspace"
                                            THEN todo.incoming_edge.path
                                            ELSE todo.incoming_edge.reason.root,
                                   intermediate_root_dependency |->
                                       IF todo.incoming_edge.tag = "Workspace" THEN None
                                       ELSE Some(dep_parent),
                                   parent |-> dep_parent]],
                  pkg |-> dep.pkg])

\* the closure passed to filter_map: the Todo for one outgoing edge, if any
ChildTodo(todo, package_kind, dep_parent, dep) ==
    LET admissible == AdmissibleKinds(todo, dep)
        mapped == [i \in 1..Len(admissible) |->
                      then(package_kind, KindFrom(admissible[i].kind))]
    IN IF Len(admissible) = 0 THEN None
       ELSE LET dep_kind == ReduceMerged(mapped, 2, mapped[1])
                root == IF todo.incoming_edge.tag = "Workspace"
                        THEN todo.incoming_edge.path
                        ELSE todo.incoming_edge.reason.root
                intermediate_root_dependency ==
                    IF todo.incoming_edge.tag = "Workspace" THEN None
                    ELSE IF todo.incoming_edge.reason.intermediate_root_dependency.tag = "Some"
                         THEN todo.incoming_edge.reason.intermediate_root_dependency
                         ELSE Some(dep_parent)
            IN Some([kind |-> dep_kind,
                     incoming_edge |->
                         [tag |-> "Dependency",
                          reason |-> [kind |-> package_kind,
                                      root |-> root,
                                      intermediate_root_dependency |-> intermediate_root_dependency,
                                      parent |-> dep_parent]],
                     pkg |-> dep.pkg])

\* the body of `while let Some(todo) = todos.pop()`: the queue and Included afterwards
VisitTodo(metadata, queue, inc) ==
    LET todo == queue[Len(queue)]
        rest == SubSeq(queue, 1, Len(queue) - 1)
        package == metadata.packages[todo.pkg]
        node == metadata.resolve[todo.pkg]
        package_ident == from_package(metadata.workspace_root, package)
        has_build_rs == HasTargetKind(package, "custom-build")
        is_proc_macro == HasTargetKind(package, "proc-macro")
        package_kind == PackageKind(todo, is_proc_macro)
        visit == IF package_ident.tag = "CratesIo"
                 THEN RecordVisit(inc, metadata, todo, package_ident.name, package,
                                  package_kind, has_build_rs, is_proc_macro)
                 ELSE [included |-> inc, explore |-> TRUE]
        dep_parent == with_version(package_ident, package.version)
        children == FilterMap([i \in 1..Len(node.deps) |->
                                  ChildTodo(todo, package_kind, dep_parent, node.deps[i])], 1)
    IN [included |-> visit.included,
        todos |-> IF visit.explore THEN rest \o children ELSE rest]


(***************************************************************************)
(* resolve.rs: resolve_from_indexed, resolve_filtered_from_indexed and     *)
(* resolve_from_path.                                                      *)
(***************************************************************************)
SpecificCrateIdent(name, version) == [name |-> name, version |-> version]

\* the (name, version) keys of an Included map
IncludedIdents(inc) ==
    UNION {{SpecificCrateIdent(name, version) : version \in DOMAIN inc[name]}
              : name \in DOMAIN inc}

\* variant that lists every registry package of the unfiltered index as filtered
resolve_filtered_from_indexed_listing_all(inc, full_metadata) ==
    LET registry == {id \in DOMAIN full_metadata.packages :
                        from_package(full_metadata.workspace_root,
                                     full_metadata.packages[id]).tag = "CratesIo"}
    IN [included |-> inc,
        filtered |-> {SpecificCrateIdent(full_metadata.packages[id].name,
                                         full_metadata.packages[id].version)
                         : id \in registry}]

resolve_filtered_from_indexed(inc, full_metadata) ==
    LET registry == {id \in DOMAIN full_metadata.packages :
                        from_package(full_metadata.workspace_root,
                                     full_metadata.packages[id]).tag = "CratesIo"}
        was_included(pkg) == /\ pkg.name \in DOMAIN inc
                             /\ pkg.version \in DOMAIN inc[pkg.name]
    IN [included |-> inc,
        filtered |-> {SpecificCrateIdent(full_metadata.packages[id].name,
                                         full_metadata.packages[id].version)
                         : id \in {i \in registry : ~was_included(full_metadata.packages[i])}}]

\* how many IndexedMetadata resolve_from_path walks: one per platform, and the
\* unfiltered one in all-platforms mode
NumWalks == Len(platforms) + (IF include_all_platforms THEN 1 ELSE 0)

\* the IndexedMetadata of walk number i
MetadataOfWalk(i) ==
    gather(world, IF i <= Len(platforms) THEN Some(platforms[i]) ELSE None)

\* the value resolve_from_path returns once every walk is done
ResolveResult ==
    IF include_all_platforms
    THEN [included |-> included, filtered |-> {}]
    ELSE resolve_filtered_from_indexed(included, gather(world, None))

\* resolve_platform is entered: the queue holds the workspace default members
resolve_platform_enter ==
    /\ pc = "gather"
    /\ walk <= NumWalks
    /\ \E metadata \in {MetadataOfWalk(walk)} : todos' = SeedTodos(metadata)
    /\ pc' = "walk"
    /\ UNCHANGED <<task, world, platforms, include_all_platforms, walk, included,
                   before, after, diff>>
    /\ UNCHANGED majorVars
    /\ UNCHANGED callVars

\* one iteration of the work loop
resolve_platform_visit ==
    /\ pc = "walk"
    /\ todos # <<>>
    /\ \E metadata \in {MetadataOfWalk(walk)} :
       \E out \in {VisitTodo(metadata, todos, included)} :
          /\ Len(out.todos) <= MaxTodos
          /\ todos' = out.todos
          /\ included' = out.included
    /\ UNCHANGED <<task, pc, world, platforms, include_all_platforms, walk,
                   before, after, diff>>
    /\ UNCHANGED majorVars
    /\ UNCHANGED callVars

\* the queue is empty: resolve_platform returns
resolve_platform_return ==
    /\ pc = "walk"
    /\ todos = <<>>
    /\ walk' = walk + 1
    /\ pc' = "gather"
    /\ UNCHANGED <<task, world, platforms, include_all_platforms, todos, included,
                   before, after, diff>>
    /\ UNCHANGED majorVars
    /\ UNCHANGED callVars

\* resolve_from_path returns the Resolved
resolve_from_path_return ==
    /\ task = "resolve"
    /\ pc = "gather"
    /\ walk > NumWalks
    /\ after' = ResolveResult
    /\ pc' = "done"
    /\ UNCHANGED <<task, world, platforms, include_all_platforms, walk, todos,
                   included, before, diff>>
    /\ UNCHANGED majorVars
    /\ UNCHANGED callVars

\* no major-update task is running
NoMajorUpdate ==
    /\ crates_io = EmptyMap
    /\ disk = <<>>
    /\ manifests = <<>>
    /\ dependencies = EmptyMap
    /\ direct_dependencies = <<>>
    /\ candidate = None
    /\ major_updates = <<>>
    /\ failed_major_updates = <<>>
    /\ commits = <<>>

\* no function is called on its own
NoCall ==
    /\ args = None
    /\ returned = None

PlatformChoices == {<<"X">>, <<"X", "Y">>}

Init ==
    /\ task = "resolve"
    /\ pc = "gather"
    /\ world \in Worlds
    /\ platforms \in PlatformChoices
    /\ include_all_platforms \in BOOLEAN
    /\ walk = 1
    /\ todos = <<>>
    /\ included = EmptyMap
    /\ before = None
    /\ after = None
    /\ diff = None
    /\ NoMajorUpdate
    /\ NoCall

Next ==
    \/ resolve_platform_enter
    \/ resolve_platform_visit
    \/ resolve_platform_return
    \/ resolve_from_path_return

\* one call of Resolved::resolve_from_path
Spec == Init /\ [][Next]_vars

\* the program runs its loop until it returns
FairSpec == Spec /\ WF_vars(Next)


(***************************************************************************)
(* Reach paths, stated on the resolve graph itself: the seeds are the      *)
(* workspace default members, a development edge counts only as the first  *)
(* edge from a seed, and a path's kind composes its edges' kinds with       *)
(* `then`, every proc-macro node on it setting run_at_build.               *)
(***************************************************************************)
IsProcMacroPackage(metadata, id) == HasTargetKind(metadata.packages[id], "proc-macro")

\* the kind of a path once it has entered its last node
AtNode(metadata, s) ==
    IF IsProcMacroPackage(metadata, s.pkg) THEN [s.kind EXCEPT !.run_at_build = TRUE] ELSE s.kind

ReachSuccessors(metadata, s) ==
    LET deps == metadata.resolve[s.pkg].deps
    IN UNION {{[pkg |-> deps[i].pkg,
                kind |-> then(AtNode(metadata, s), KindFrom(deps[i].dep_kinds[j].kind)),
                seed |-> FALSE]
                 : j \in {n \in 1..Len(deps[i].dep_kinds) :
                            s.seed \/ deps[i].dep_kinds[n].kind # "development"}}
                 : i \in 1..Len(deps)}

RECURSIVE ReachClosure(_, _)
ReachClosure(metadata, states) ==
    LET next == states \cup UNION {ReachSuccessors(metadata, s) : s \in states}
    IN IF next = states THEN states ELSE ReachClosure(metadata, next)

ReachStates(metadata) ==
    LET members == get_workspace_default_members(metadata)
    IN ReachClosure(metadata,
                    {[pkg |-> members[i], kind |-> NORMAL, seed |-> TRUE] : i \in 1..Len(members)})

\* the kinds of all reach paths to a package in one metadata
PathKinds(metadata, id) ==
    {AtNode(metadata, s) : s \in {t \in ReachStates(metadata) : t.pkg = id}}

\* the registry packages some reach path of a metadata ends in
ReachableRegistry(metadata) ==
    {id \in {s.pkg : s \in ReachStates(metadata)} : metadata.packages[id].source.tag = "Some"}

IdentOf(id) == SpecificCrateIdent(PackageTable[id].name, PackageTable[id].version)
IdOf(ident) == CHOOSE id \in PackageIds : IdentOf(id) = ident

\* the kinds of all reach paths to a package over every walk of the finished resolve
AllPathKinds(id) == UNION {PathKinds(MetadataOfWalk(i), id) : i \in 1..NumWalks}

(***************************************************************************)
(* Claims about the graph walker.                                          *)
(***************************************************************************)
\* C1: in all-platforms mode, once resolve_from_path has returned, filtered is empty
\* and every registry package reachable from the workspace default members in the
\* unfiltered resolve graph is in included.
C1_AllPlatformsIncludesAllReachable ==
    (pc = "done" /\ include_all_platforms) =>
        /\ after.filtered = {}
        /\ \A id \in ReachableRegistry(gather(world, None)) :
              IdentOf(id) \in IncludedIdents(after.included)

\* C2: the graph walk terminates: every resolve eventually returns.
C2_WalkTerminates == <>(pc = "done")

\* C9: after the walks, run_at_build of an included version is true exactly if some
\* reach path to it contains a build edge or a proc-macro node.
C9_RunAtBuildIffSomePath ==
    pc = "done" =>
        \A ident \in IncludedIdents(after.included) :
            after.included[ident.name][ident.version].kind.run_at_build
                <=> (\E k \in AllPathKinds(IdOf(ident)) : k.run_at_build)

\* C10: after the walks, only_debug_builds of an included version is true exactly if
\* every reach path to it passes through a development edge.
C10_OnlyDebugIffEveryPath ==
    pc = "done" =>
        \A ident \in IncludedIdents(after.included) :
            after.included[ident.name][ident.version].kind.only_debug_builds
                <=> (\A k \in AllPathKinds(IdOf(ident)) : k.only_debug_builds)


(***************************************************************************)
(* diff.rs.  A Vec collected from an ordered map is a sequence in key      *)
(* order; crate names are ordered by NameRank, versions by semver.  A Vec  *)
(* or map of reasons is kept as the set / sub-map of Reasons it holds.     *)
(***************************************************************************)
NameRank == [c |-> 1, p |-> 2, q |-> 3]

RECURSIVE SortedNames(_)
SortedNames(S) ==
    IF S = {} THEN <<>>
    ELSE LET first == CHOOSE n \in S : \A m \in S : NameRank[n] <= NameRank[m]
         IN <<first>> \o SortedNames(S \ {first})

MinVersion(S) == CHOOSE v \in S : \A u \in S : VersionLeq(v, u)
MaxVersion(S) == CHOOSE v \in S : \A u \in S : VersionLeq(u, v)

RECURSIVE SortedVersions(_)
SortedVersions(S) ==
    IF S = {} THEN <<>>
    ELSE <<MinVersion(S)>> \o SortedVersions(S \ {MinVersion(S)})

IdentLeq(a, b) ==
    IF a.name # b.name THEN NameRank[a.name] <= NameRank[b.name]
    ELSE VersionLeq(a.version, b.version)

RECURSIVE SortedIdents(_)
SortedIdents(S) ==
    IF S = {} THEN <<>>
    ELSE LET first == CHOOSE a \in S : \A b \in S : IdentLeq(a, b)
         IN <<first>> \o SortedIdents(S \ {first})

\* old.range(&new_version..).next().unwrap_or_else(|| old.last_key_value())
\* variant that prefers the nearest old version below the new one
ClosestOldVersionPreferringUpgrades(old, new_version) ==
    LET not_above == {v \in DOMAIN old : VersionLeq(v, new_version)}
    IN IF not_above # {} THEN MaxVersion(not_above) ELSE MinVersion(DOMAIN old)

ClosestOldVersion(old, new_version) ==
    LET not_below == {v \in DOMAIN old : VersionLeq(new_version, v)}
    IN IF not_below # {} THEN MinVersion(not_below) ELSE MaxVersion(DOMAIN old)

AllOtherOldVersions(old, closest_different_old_version) ==
    IF closest_different_old_version.tag = "Some"
    THEN SortedVersions({i \in DOMAIN old : i # closest_different_old_version.value})
    ELSE <<>>

AddedInPlatforms(new, closest_old_info) ==
    [platform \in {i \in new.platforms : i \notin closest_old_info.platforms} |->
        {reason \in DOMAIN new.reasons : platform \in new.reasons[reason]}]

AddedInBuild(new, closest_old_info) ==
    IF new.kind.run_at_build /\ ~closest_old_info.kind.run_at_build
    THEN [reason \in {r \in DOMAIN new.reasons : r.kind.run_at_build} |-> new.reasons[reason]]
    ELSE EmptyMap

\* variant that reports the non-debug reasons without looking at the old version's kind
AddedInNonDebugIgnoringOld(new, closest_old_info) ==
    IF ~new.kind.only_debug_builds
    THEN [reason \in {r \in DOMAIN new.reasons : ~r.kind.only_debug_builds} |->
             new.reasons[reason]]
    ELSE EmptyMap

\* diff.rs: `let added_in_non_debug = ...`
AddedInNonDebug(new, closest_old_info) ==
    IF ~new.kind.only_debug_builds /\ closest_old_info.kind.only_debug_builds
    THEN [reason \in {r \in DOMAIN new.reasons : ~r.kind.only_debug_builds} |->
             new.reasons[reason]]
    ELSE EmptyMap

\* Diff::compare
compare(name, old, new_version, new) ==
    LET closest_old_version == ClosestOldVersion(old, new_version)
        closest_old_info == old[closest_old_version]
        closest_different_old_version ==
            IF closest_old_version # new_version THEN Some(closest_old_version) ELSE None
    IN [ident |-> SpecificCrateIdent(name, new_version),
        kind |-> new.kind,
        has_build_rs |-> new.has_build_rs,
        is_proc_macro |-> new.is_proc_macro,
        platforms |-> new.platforms,
        reasons |-> new.reasons,
        closest_different_old_version |-> closest_different_old_version,
        all_other_old_versions |-> AllOtherOldVersions(old, closest_different_old_version),
        added_in_platforms |-> AddedInPlatforms(new, closest_old_info),
        added_in_build |-> AddedInBuild(new, closest_old_info),
        added_in_non_debug |-> AddedInNonDebug(new, closest_old_info)]

\* variant that does not look at added_in_platforms
requires_review_ignoring_platforms(comparison) ==
    \/ comparison.closest_different_old_version.tag = "Some"
    \/ comparison.added_in_build # EmptyMap
    \/ comparison.added_in_non_debug # EmptyMap

requires_review(comparison) ==
    \/ comparison.closest_different_old_version.tag = "Some"
    \/ comparison.added_in_platforms # EmptyMap
    \/ comparison.added_in_build # EmptyMap
    \/ comparison.added_in_non_debug # EmptyMap

\* variant that lists only the newest version of every new name
AddedListOfNewestVersions(old, new) ==
    LET names == SortedNames({name \in DOMAIN new.included : name \notin DOMAIN old.included})
        of(name) ==
            LET newest == MaxVersion(DOMAIN new.included[name])
                info == new.included[name][newest]
            IN <<[ident |-> SpecificCrateIdent(name, newest),
                  kind |-> info.kind,
                  has_build_rs |-> info.has_build_rs,
                  is_proc_macro |-> info.is_proc_macro,
                  platforms |-> info.platforms,
                  reasons |-> info.reasons]>>
    IN Concat([i \in 1..Len(names) |-> of(names[i])])

\* the `added` list of Diff::between
AddedList(old, new) ==
    LET names == SortedNames({name \in DOMAIN new.included : name \notin DOMAIN old.included})
        of(name) ==
            LET versions == SortedVersions(DOMAIN new.included[name])
            IN [j \in 1..Len(versions) |->
                  LET info == new.included[name][versions[j]]
                  IN [ident |-> SpecificCrateIdent(name, versions[j]),
                      kind |-> info.kind,
                      has_build_rs |-> info.has_build_rs,
                      is_proc_macro |-> info.is_proc_macro,
                      platforms |-> info.platforms,
                      reasons |-> info.reasons]]
    IN Concat([i \in 1..Len(names) |-> of(names[i])])

\* every Comparison Diff::between computes, before the requires_review filter
Comparisons(old, new) ==
    LET names == SortedNames({name \in DOMAIN new.included : name \in DOMAIN old.included})
        of(name) ==
            LET versions == SortedVersions(DOMAIN new.included[name])
            IN [j \in 1..Len(versions) |->
                  compare(name, old.included[name], versions[j],
                          new.included[name][versions[j]])]
    IN Concat([i \in 1..Len(names) |-> of(names[i])])

\* the `changed` list of Diff::between
ChangedList(old, new) == SelectSeq(Comparisons(old, new), requires_review)

\* variant that emits the versions gone from a name even if the name got a new version
RemovedListDespiteChange(old, new) ==
    LET names == SortedNames(DOMAIN old.included)
        is_in_new(name, version) ==
            /\ name \in DOMAIN new.included
            /\ version \in DOMAIN new.included[name]
        of(name) ==
            LET remaining_versions ==
                    SortedVersions({v \in DOMAIN old.included[name] : is_in_new(name, v)})
                gone == SortedVersions({v \in DOMAIN old.included[name] : ~is_in_new(name, v)})
            IN [j \in 1..Len(gone) |->
                  [ident |-> SpecificCrateIdent(name, gone[j]),
                   remaining_versions |-> remaining_versions]]
    IN Concat([i \in 1..Len(names) |-> of(names[i])])

\* the `removed` list of Diff::between
RemovedList(old, new) ==
    LET has_change(name) ==
            /\ name \in DOMAIN new.included
            /\ \E key \in DOMAIN new.included[name] : key \notin DOMAIN old.included[name]
        names == SortedNames({name \in DOMAIN old.included : ~has_change(name)})
        is_in_new(name, version) ==
            /\ name \in DOMAIN new.included
            /\ version \in DOMAIN new.included[name]
        of(name) ==
            LET remaining_versions ==
                    SortedVersions({v \in DOMAIN old.included[name] : is_in_new(name, v)})
                gone == SortedVersions({v \in DOMAIN old.included[name] : ~is_in_new(name, v)})
            IN [j \in 1..Len(gone) |->
                  [ident |-> SpecificCrateIdent(name, gone[j]),
                   remaining_versions |-> remaining_versions]]
    IN Concat([i \in 1..Len(names) |-> of(names[i])])

\* variant that keeps every item of the right set
in_right_set_unfiltered(left, right) == SortedIdents(right)

\* the closure in_right_set of Diff::between
in_right_set(left, right) == SortedIdents({item \in right : item \notin left})

FilteredAdded(old, new) == in_right_set(old.filtered, new.filtered)

FilteredRemoved(old, new) == in_right_set(old.filtered, new.filtered)

\* Diff::between
between(old, new) ==
    [added |-> AddedList(old, new),
     changed |-> ChangedList(old, new),
     removed |-> RemovedList(old, new),
     filtered_added |-> FilteredAdded(old, new),
     filtered_removed |-> FilteredRemoved(old, new)]


(***************************************************************************)
(* main.rs: minor_update_task.  Resolve, `cargo update`, resolve again,    *)
(* diff.  The update leaves the workspace in any state of MinorWorlds.     *)
(***************************************************************************)
MinorWorlds ==
    {w \in Worlds : /\ w.pc \in {"none", "N", "NY"}
                    /\ w.cp = "none"
                    /\ w.lw = "none"}

\* `let before = self.resolve()?`
resolve_before_return ==
    /\ task = "minor"
    /\ pc = "gather"
    /\ walk > NumWalks
    /\ before = None
    /\ before' = ResolveResult
    /\ pc' = "update"
    /\ UNCHANGED <<task, world, platforms, include_all_platforms, walk, todos,
                   included, after, diff>>
    /\ UNCHANGED majorVars
    /\ UNCHANGED callVars

\* `self.minor_update()?`: cargo rewrites the lockfile; a registry version keeps its targets
minor_update ==
    /\ task = "minor"
    /\ pc = "update"
    /\ \E w \in MinorWorlds :
          /\ w.proc_macro = world.proc_macro
          /\ world' = w
    /\ walk' = 1
    /\ todos' = <<>>
    /\ included' = EmptyMap
    /\ pc' = "gather"
    /\ UNCHANGED <<task, platforms, include_all_platforms, before, after, diff>>
    /\ UNCHANGED majorVars
    /\ UNCHANGED callVars

\* `let after = self.resolve()?`
resolve_after_return ==
    /\ task = "minor"
    /\ pc = "gather"
    /\ walk > NumWalks
    /\ before # None
    /\ after' = ResolveResult
    /\ pc' = "diff"
    /\ UNCHANGED <<task, world, platforms, include_all_platforms, walk, todos,
                   included, before, diff>>
    /\ UNCHANGED majorVars
    /\ UNCHANGED callVars

\* `let diff = Diff::between(&before, &after)`
diff_between ==
    /\ pc = "diff"
    /\ diff' = between(before, after)
    /\ pc' = "done"
    /\ UNCHANGED <<task, world, platforms, include_all_platforms, walk, todos,
                   included, before, after>>
    /\ UNCHANGED majorVars
    /\ UNCHANGED callVars

MinorInit ==
    /\ task = "minor"
    /\ pc = "gather"
    /\ world \in MinorWorlds
    /\ platforms = <<"X", "Y">>
    /\ include_all_platforms \in BOOLEAN
    /\ walk = 1
    /\ todos = <<>>
    /\ included = EmptyMap
    /\ before = None
    /\ after = None
    /\ diff = None
    /\ NoMajorUpdate
    /\ NoCall

MinorNext ==
    \/ resolve_platform_enter
    \/ resolve_platform_visit
    \/ resolve_platform_return
    \/ resolve_before_return
    \/ minor_update
    \/ resolve_after_return
    \/ diff_between

\* AppContext::minor_update_task
MinorSpec == MinorInit /\ [][MinorNext]_vars

(***************************************************************************)
(* Diff::between on its own, over a bounded set of Resolved values: up to  *)
(* three versions of crate p, each as the walker records a direct          *)
(* dependency of w, crate c included or filtered, crate q filtered.        *)
(***************************************************************************)
DirectReason ==
    [kind |-> NORMAL,
     root |-> <<"w", "Cargo.toml">>,
     intermediate_root_dependency |-> None,
     parent |-> [tag |-> "Local", path |-> <<"w">>]]

DirectInfo(kind, on) ==
    [kind |-> kind,
     has_build_rs |-> FALSE,
     is_proc_macro |-> FALSE,
     reasons |-> [reason \in {DirectReason} |-> on],
     platforms |-> on]

DiffVersions == {Ver(1, 0, 0), Ver(1, 1, 0), Ver(2, 0, 0)}

DiffInfos == {DirectInfo(NORMAL, {"X"}), DirectInfo(DEVELOPMENT, {"X"}),
              DirectInfo(NORMAL, {"X", "Y"})}

DiffVersionMaps == UNION {[S -> DiffInfos] : S \in SUBSET DiffVersions}

DiffResolved(pmap, cstate, qfiltered) ==
    [included |->
        [name \in (IF pmap = EmptyMap THEN {} ELSE {"p"})
                  \cup (IF cstate = "included" THEN {"c"} ELSE {}) |->
            IF name = "p" THEN pmap
            ELSE [v \in {Ver(1, 0, 0)} |-> DirectInfo(NORMAL, {"X"})]],
     filtered |->
        (IF cstate = "filtered" THEN {SpecificCrateIdent("c", Ver(1, 0, 0))} ELSE {})
        \cup (IF qfiltered THEN {SpecificCrateIdent("q", Ver(1, 0, 0))} ELSE {})]

DiffResolveds ==
    {DiffResolved(pmap, cstate, qfiltered) :
        pmap \in DiffVersionMaps,
        cstate \in {"included", "filtered", "absent"},
        qfiltered \in BOOLEAN}

DiffInit ==
    /\ task = "diff"
    /\ pc = "diff"
    /\ world = None
    /\ platforms = <<"X", "Y">>
    /\ include_all_platforms = FALSE
    /\ walk = 0
    /\ todos = <<>>
    /\ included = EmptyMap
    /\ before \in DiffResolveds
    /\ after \in DiffResolveds
    /\ diff = None
    /\ NoMajorUpdate
    /\ NoCall

DiffNext == diff_between

\* Diff::between applied to two Resolved values
DiffSpec == DiffInit /\ [][DiffNext]_vars

(***************************************************************************)
(* Claims about the diff generator.                                        *)
(***************************************************************************)
\* the Comparison a finished diff reports for an ident, with the old entry it was
\* compared against
ClosestOldInfo(cmp) ==
    before.included[cmp.ident.name][ClosestOldVersion(before.included[cmp.ident.name],
                                                      cmp.ident.version)]

\* every Comparison Diff::compare produced for the finished diff
ComparedSet == Range(Comparisons(before, after))

\* C3: filtered_added is new.filtered minus old.filtered and filtered_removed is
\* old.filtered minus new.filtered.
C3_FilteredSymmetricDifference ==
    pc = "done" =>
        /\ Range(diff.filtered_added) = after.filtered \ before.filtered
        /\ Range(diff.filtered_removed) = before.filtered \ after.filtered

\* C5: added_in_build of every Comparison is non-empty exactly if the new version is
\* run at build and the closest old version is not, and then holds the new reasons whose
\* own kind is run at build.
C5_AddedInBuildIff ==
    pc = "done" =>
        \A cmp \in ComparedSet :
            /\ (cmp.added_in_build # EmptyMap)
                   <=> (cmp.kind.run_at_build /\ ~ClosestOldInfo(cmp).kind.run_at_build)
            /\ cmp.added_in_build # EmptyMap =>
                   DOMAIN cmp.added_in_build
                       = {r \in DOMAIN cmp.reasons : r.kind.run_at_build}

\* C6: added_in_non_debug of every Comparison is non-empty exactly if the new version is
\* not debug-only and the closest old version is, and then holds the new reasons whose
\* own kind is not debug-only.
C6_AddedInNonDebugIff ==
    pc = "done" =>
        \A cmp \in ComparedSet :
            /\ (cmp.added_in_non_debug # EmptyMap)
                   <=> (~cmp.kind.only_debug_builds
                           /\ ClosestOldInfo(cmp).kind.only_debug_builds)
            /\ cmp.added_in_non_debug # EmptyMap =>
                   DOMAIN cmp.added_in_non_debug
                       = {r \in DOMAIN cmp.reasons : ~r.kind.only_debug_builds}

\* C6 witness: a finished diff holds a Comparison whose version stopped being debug-only
C6_Witness ==
    /\ pc = "done"
    /\ \E cmp \in Range(diff.changed) :
          /\ ~cmp.kind.only_debug_builds
          /\ ClosestOldInfo(cmp).kind.only_debug_builds
          /\ cmp.added_in_non_debug # EmptyMap

\* C7: all_other_old_versions lists every old version of the name other than the new
\* version itself and the closest old version.
C7_AllOtherOldVersions ==
    pc = "done" =>
        \A cmp \in Range(diff.changed) :
            Range(cmp.all_other_old_versions)
                = (DOMAIN before.included[cmp.ident.name])
                      \ {cmp.ident.version,
                         ClosestOldVersion(before.included[cmp.ident.name],
                                           cmp.ident.version)}

\* C8: a crate name with a Comparison in changed has no entry in added or removed.
C8_ChangedNamesNotAddedOrRemoved ==
    pc = "done" =>
        \A cmp \in Range(diff.changed) :
            /\ \A a \in Range(diff.added) : a.ident.name # cmp.ident.name
            /\ \A r \in Range(diff.removed) : r.ident.name # cmp.ident.name

\* C13: the closest old version of a compared (name, version) is the smallest old
\* version of the name that is not below the new version, or the largest old version
\* when every old version is below it; closest_different_old_version is that version
\* when it differs from the new version and absent when it equals it.
C13_ClosestOldVersion ==
    pc = "done" =>
        \A cmp \in ComparedSet :
            LET old == DOMAIN before.included[cmp.ident.name]
                not_below == {v \in old : ~VersionLess(v, cmp.ident.version)}
                closest ==
                    IF not_below # {}
                    THEN CHOOSE v \in not_below : \A u \in not_below : ~VersionLess(u, v)
                    ELSE CHOOSE v \in old : \A u \in old : ~VersionLess(v, u)
            IN cmp.closest_different_old_version
                   = (IF closest = cmp.ident.version THEN None ELSE Some(closest))

\* C13 witness: a reported Comparison names a later old version as the closest one
\* although an earlier old version exists as well
C13_Witness ==
    /\ pc = "done"
    /\ \E cmp \in Range(diff.changed) :
          /\ cmp.closest_different_old_version.tag = "Some"
          /\ VersionLess(cmp.ident.version, cmp.closest_different_old_version.value)
          /\ \E u \in DOMAIN before.included[cmp.ident.name] :
                VersionLess(u, cmp.ident.version)

\* C14: a Comparison is kept in changed exactly if closest_different_old_version is
\* present or one of added_in_platforms, added_in_build and added_in_non_debug is not
\* empty; so a new version that equals an old version of the name with the same kind
\* and the same platforms has no Comparison in changed.
C14_KeptIffRequiresReview ==
    pc = "done" =>
        /\ Range(diff.changed) \subseteq ComparedSet
        /\ \A cmp \in ComparedSet :
              (cmp \in Range(diff.changed))
                  <=> \/ cmp.closest_different_old_version # None
                      \/ cmp.added_in_platforms # EmptyMap
                      \/ cmp.added_in_build # EmptyMap
                      \/ cmp.added_in_non_debug # EmptyMap
        /\ \A name \in DOMAIN after.included \cap DOMAIN before.included :
              \A v \in DOMAIN after.included[name] \cap DOMAIN before.included[name] :
                  (/\ after.included[name][v].kind = before.included[name][v].kind
                   /\ after.included[name][v].platforms = before.included[name][v].platforms)
                      => \A cmp \in Range(diff.changed) :
                             cmp.ident # SpecificCrateIdent(name, v)

\* C14 witness: one Comparison was dropped, and another was kept for its added
\* platforms alone
C14_Witness ==
    /\ pc = "done"
    /\ ComparedSet \ Range(diff.changed) # {}
    /\ \E cmp \in Range(diff.changed) :
          /\ cmp.closest_different_old_version = None
          /\ cmp.added_in_platforms # EmptyMap
          /\ cmp.added_in_build = EmptyMap
          /\ cmp.added_in_non_debug = EmptyMap

\* the Removed entries expected for a name of old.included
RemovedExpected(name) ==
    LET old_versions == DOMAIN before.included[name]
        new_versions == IF name \in DOMAIN after.included
                        THEN DOMAIN after.included[name] ELSE {}
    IN IF new_versions \ old_versions # {} THEN {}
       ELSE {[ident |-> SpecificCrateIdent(name, v),
              remaining_versions |-> SortedVersions(old_versions \cap new_versions)] :
                 v \in old_versions \ new_versions}

C16_DiffWithItselfIsEmpty ==
    (pc = "done" /\ before = after) =>
        /\ diff.added = <<>>
        /\ diff.changed = <<>>
        /\ diff.removed = <<>>
        /\ diff.filtered_added = <<>>
        /\ diff.filtered_removed = <<>>

\* C16 witness: a Resolved with two versions of a name and a filtered crate was
\* compared with itself
C16_Witness ==
    /\ pc = "done"
    /\ before = after
    /\ \E name \in DOMAIN before.included : Cardinality(DOMAIN before.included[name]) > 1
    /\ before.filtered # {}


(***************************************************************************)
(* semver::VersionReq as major_updates.rs uses it: parsing a manifest      *)
(* string, printing a requirement, and matching a version.  A comparator   *)
(* text is a sigil ("" when the manifest gives none), the numbers written  *)
(* and whether it ends in `.*`; the text `*` is the empty sequence.        *)
(***************************************************************************)
OpOfSigil ==
    [eq |-> "Exact", gt |-> "Greater", ge |-> "GreaterEq", lt |-> "Less",
     le |-> "LessEq", tilde |-> "Tilde", caret |-> "Caret"]

SigilOfOp ==
    [Exact |-> "eq", Greater |-> "gt", GreaterEq |-> "ge", Less |-> "lt",
     LessEq |-> "le", Tilde |-> "tilde", Caret |-> "caret", Wildcard |-> ""]

\* str::parse::<Comparator>: a bare version is a caret requirement, a bare `.*` a wildcard
ParseComparator(text) ==
    [op |-> IF text.sigil = ""
            THEN (IF text.wildcard THEN "Wildcard" ELSE "Caret")
            ELSE OpOfSigil[text.sigil],
     major |-> text.major,
     minor |-> text.minor,
     patch |-> text.patch,
     pre |-> text.pre]

\* str::parse::<VersionReq>
ParseVersionReq(text) ==
    [comparators |-> [i \in 1..Len(text) |-> ParseComparator(text[i])]]

\* Display for Comparator: every operator but the wildcard prints its sigil
ComparatorToString(comparator) ==
    [sigil |-> SigilOfOp[comparator.op],
     major |-> comparator.major,
     minor |-> comparator.minor,
     patch |-> comparator.patch,
     pre |-> comparator.pre,
     wildcard |-> comparator.op = "Wildcard"]

\* VersionReq::to_string
VersionReqToString(version_req) ==
    [i \in 1..Len(version_req.comparators) |->
        ComparatorToString(version_req.comparators[i])]

matches_exact(cmp, ver) ==
    IF ver.major # cmp.major THEN FALSE
    ELSE IF cmp.minor.tag = "Some" /\ ver.minor # cmp.minor.value THEN FALSE
    ELSE IF cmp.patch.tag = "Some" /\ ver.patch # cmp.patch.value THEN FALSE
    ELSE ver.pre = cmp.pre

matches_greater(cmp, ver) ==
    IF ver.major # cmp.major THEN ver.major > cmp.major
    ELSE IF cmp.minor.tag = "None" THEN FALSE
    ELSE IF ver.minor # cmp.minor.value THEN ver.minor > cmp.minor.value
    ELSE IF cmp.patch.tag = "None" THEN FALSE
    ELSE IF ver.patch # cmp.patch.value THEN ver.patch > cmp.patch.value
    ELSE PreLess(cmp.pre, ver.pre)

matches_less(cmp, ver) ==
    IF ver.major # cmp.major THEN ver.major < cmp.major
    ELSE IF cmp.minor.tag = "None" THEN FALSE
    ELSE IF ver.minor # cmp.minor.value THEN ver.minor < cmp.minor.value
    ELSE IF cmp.patch.tag = "None" THEN FALSE
    ELSE IF ver.patch # cmp.patch.value THEN ver.patch < cmp.patch.value
    ELSE PreLess(ver.pre, cmp.pre)

matches_tilde(cmp, ver) ==
    IF ver.major # cmp.major THEN FALSE
    ELSE IF cmp.minor.tag = "Some" /\ ver.minor # cmp.minor.value THEN FALSE
    ELSE IF cmp.patch.tag = "Some" /\ ver.patch # cmp.patch.value
         THEN ver.patch > cmp.patch.value
    ELSE ~PreLess(ver.pre, cmp.pre)

matches_caret(cmp, ver) ==
    IF ver.major # cmp.major THEN FALSE
    ELSE IF cmp.minor.tag = "None" THEN TRUE
    ELSE IF cmp.patch.tag = "None"
         THEN (IF cmp.major > 0 THEN ver.minor >= cmp.minor.value
                                ELSE ver.minor = cmp.minor.value)
    ELSE IF cmp.major > 0 /\ ver.minor # cmp.minor.value THEN ver.minor > cmp.minor.value
    ELSE IF cmp.major > 0 /\ ver.patch # cmp.patch.value THEN ver.patch > cmp.patch.value
    ELSE IF cmp.major = 0 /\ cmp.minor.value > 0 /\ ver.minor # cmp.minor.value THEN FALSE
    ELSE IF cmp.major = 0 /\ cmp.minor.value > 0 /\ ver.patch # cmp.patch.value
         THEN ver.patch > cmp.patch.value
    ELSE IF cmp.major = 0 /\ cmp.minor.value = 0
            /\ (ver.minor # cmp.minor.value \/ ver.patch # cmp.patch.value) THEN FALSE
    ELSE ~PreLess(ver.pre, cmp.pre)

matches_impl(cmp, ver) ==
    CASE cmp.op \in {"Exact", "Wildcard"} -> matches_exact(cmp, ver)
      [] cmp.op = "Greater" -> matches_greater(cmp, ver)
      [] cmp.op = "GreaterEq" -> matches_exact(cmp, ver) \/ matches_greater(cmp, ver)
      [] cmp.op = "Less" -> matches_less(cmp, ver)
      [] cmp.op = "LessEq" -> matches_exact(cmp, ver) \/ matches_less(cmp, ver)
      [] cmp.op = "Tilde" -> matches_tilde(cmp, ver)
      [] cmp.op = "Caret" -> matches_caret(cmp, ver)

pre_is_compatible(cmp, ver) ==
    /\ cmp.major = ver.major
    /\ cmp.minor = Some(ver.minor)
    /\ cmp.patch = Some(ver.patch)
    /\ cmp.pre # 0

\* VersionReq::matches
matches(requirement, ver) ==
    /\ \A i \in 1..Len(requirement.comparators) :
          matches_impl(requirement.comparators[i], ver)
    /\ \/ ver.pre = 0
       \/ \E i \in 1..Len(requirement.comparators) :
             pre_is_compatible(requirement.comparators[i], ver)


(***************************************************************************)
(* major_updates.rs: is_major_update_for and the crates.io queries.        *)
(***************************************************************************)
Ok(x) == [tag |-> "Ok", value |-> x]
Panic == [tag |-> "Panic"]

RECURSIVE ComparatorsAllow(_, _, _)
\* the `for i in &requirement.comparators` loop, from comparator number i on
ComparatorsAllow(requirement, version, i) ==
    IF i > Len(requirement.comparators) THEN Ok(TRUE)
    ELSE LET cmp == requirement.comparators[i]
             stripped_version == [version EXCEPT !.pre = 0]
             i_version ==
                 [major |-> cmp.major,
                  minor |-> IF cmp.minor.tag = "Some" THEN cmp.minor.value ELSE version.minor,
                  patch |-> IF cmp.patch.tag = "Some" THEN cmp.patch.value ELSE version.patch,
                  pre |-> 0]
         IN CASE cmp.op \in {"Less", "LessEq"} ->
                     IF i_version = stripped_version THEN Ok(FALSE)
                     ELSE ComparatorsAllow(requirement, version, i + 1)
              [] cmp.op \in {"Exact", "Greater", "GreaterEq", "Tilde", "Caret"} ->
                     IF VersionLeq(stripped_version, i_version) THEN Ok(FALSE)
                     ELSE ComparatorsAllow(requirement, version, i + 1)
              [] cmp.op = "Wildcard" -> Panic

\* is_major_update_for without its check for prereleases
is_major_update_for_prereleases_too(requirement, version) ==
    IF matches(requirement, version) THEN Ok(FALSE)
    ELSE ComparatorsAllow(requirement, version, 1)

is_major_update_for(requirement, version) ==
    IF matches(requirement, version) THEN Ok(FALSE)
    ELSE IF version.pre # 0 THEN Ok(FALSE)
    ELSE ComparatorsAllow(requirement, version, 1)

\* fetch_versions_for: None when crates.io does not know the crate
fetch_versions_for(client, name) ==
    IF name \notin DOMAIN client THEN None
    ELSE Some({v.num : v \in {x \in client[name] : ~x.yanked}})

\* the requirements of a sequence of mentions, `mentions.iter().map(|m| m.version())`
MentionVersions(mentions) == [i \in 1..Len(mentions) |-> mentions[i].version]

\* `reqs.clone().any(|version_req| is_major_update_for(version_req, version))`: the
\* requirements are tried in order up to the first that answers true
AnyIsMajorUpdate(reqs, version) ==
    LET verdict(i) == is_major_update_for(reqs[i], version)
        hits == {i \in 1..Len(reqs) : verdict(i) # Ok(FALSE)}
    IN IF hits = {} THEN Ok(FALSE)
       ELSE verdict(CHOOSE i \in hits : \A j \in hits : i <= j)

fetch_major_updates_for(client, name, reqs) ==
    LET versions == fetch_versions_for(client, name)
    IN IF versions.tag = "None" THEN Ok(None)
       ELSE IF \E version \in versions.value : AnyIsMajorUpdate(reqs, version) = Panic
       THEN Panic
       ELSE Ok(Some({version \in versions.value :
                        AnyIsMajorUpdate(reqs, version) = Ok(TRUE)}))

fetch_latest_major_update_for(client, name, reqs) ==
    LET versions == fetch_major_updates_for(client, name, reqs)
    IN IF versions.tag = "Panic" THEN Panic
       ELSE IF versions.value.tag = "None" THEN Ok([tag |-> "CrateNotFound"])
       ELSE IF versions.value.value = {} THEN Ok([tag |-> "NoMajorUpdates"])
       ELSE Ok([tag |-> "NewestUpdate", version |-> MaxVersion(versions.value.value)])


(***************************************************************************)
(* toml_edit.rs.  The text of a manifest is the sequence of its dependency *)
(* declarations, each a table path, a key and an item: a version string,   *)
(* or an inline table that may hold `package`, `version`, `registry` and   *)
(* `git`.  A string of the text has its decoration, its quoting and its    *)
(* characters; parsing keeps the quoting as the value's representation,    *)
(* and a value without a representation prints as a basic string.          *)
(***************************************************************************)
ParseLeaf(text) == [decor |-> text.decor, repr |-> Some(text.quote), value |-> text.str]

LeafToString(leaf) ==
    [decor |-> leaf.decor,
     quote |-> IF leaf.repr.tag = "Some" THEN leaf.repr.value ELSE "basic",
     str |-> leaf.value]

\* a declaration holds a version string: it is one, or a table with a `version` key
HasVersionLeaf(entry) == entry.item.tag = "String" \/ entry.item.version.tag = "Some"

\* the version string a declaration holds
VersionLeaf(entry) ==
    IF entry.item.tag = "String" THEN entry.item.leaf ELSE entry.item.version.value

\* the declaration with its version string replaced
WithVersionLeaf(entry, leaf) ==
    IF entry.item.tag = "String"
    THEN [entry EXCEPT !.item.leaf = leaf]
    ELSE [entry EXCEPT !.item.version = Some(leaf)]

\* str::parse::<DocumentMut>
ParseDocument(contents) ==
    [i \in 1..Len(contents) |->
        IF HasVersionLeaf(contents[i])
        THEN WithVersionLeaf(contents[i], ParseLeaf(VersionLeaf(contents[i])))
        ELSE contents[i]]

\* DocumentMut::to_string
DocumentToString(document) ==
    [i \in 1..Len(document) |->
        IF HasVersionLeaf(document[i])
        THEN WithVersionLeaf(document[i], LeafToString(VersionLeaf(document[i])))
        ELSE document[i]]

\* MutableTomlFile::open
open(path, fs) ==
    [dirty |-> FALSE,
     path |-> path,
     previous_contents |-> fs[path],
     document |-> ParseDocument(fs[path])]

\* MutableTomlFile::write_back_inner: write the temporary file, rename it over the path.
\* `failing` holds the paths whose write or rename fails during the call; a failure
\* leaves the file at the path as it was.
write_back_inner(self, data, fs, failing) ==
    IF self.path \in failing
    THEN [fs |-> fs, result |-> "Err"]
    ELSE [fs |-> [fs EXCEPT ![self.path] = data], result |-> "Ok"]

\* MutableTomlFile::write_back
write_back(self, fs, failing) ==
    IF self.dirty
    THEN LET written == write_back_inner(self, DocumentToString(self.document), fs, failing)
         IN IF written.result = "Err"
            THEN [file |-> self, fs |-> written.fs, result |-> "Err"]
            ELSE [file |-> [self EXCEPT !.dirty = FALSE], fs |-> written.fs,
                  result |-> "Ok"]
    ELSE [file |-> self, fs |-> fs, result |-> "Ok"]

\* variant of roll_back that resets the document and not the file
roll_back_in_memory_only(self, fs, failing) ==
    [file |-> [self EXCEPT !.document = ParseDocument(self.previous_contents),
                           !.dirty = FALSE],
     fs |-> fs,
     result |-> "Ok"]

\* MutableTomlFile::roll_back: the document is reset before the write is tried
roll_back(self, fs, failing) ==
    LET reparsed == [self EXCEPT !.document = ParseDocument(self.previous_contents)]
        written == write_back_inner(self, self.previous_contents, fs, failing)
    IN IF written.result = "Err"
       THEN [file |-> reparsed, fs |-> written.fs, result |-> "Err"]
       ELSE [file |-> [reparsed EXCEPT !.dirty = FALSE], fs |-> written.fs,
             result |-> "Ok"]

\* MutableTomlFile::commit
commit(self, fs, failing) ==
    LET written == write_back(self, fs, failing)
    IN IF written.result = "Err" THEN written
       ELSE [file |-> [written.file EXCEPT
                          !.previous_contents = DocumentToString(written.file.document)],
             fs |-> written.fs,
             result |-> "Ok"]

\* the TOML path of the version string a declaration holds
VersionPath(entry) ==
    entry.table \o <<entry.name>>
        \o (IF entry.item.tag = "Table" THEN <<"version">> ELSE <<>>)

\* TomlPathLookup::path_lookup down to a version string: the declaration it belongs to
path_lookup(document, toml_path) ==
    LET found == {i \in 1..Len(document) :
                     /\ VersionPath(document[i]) = toml_path
                     /\ HasVersionLeaf(document[i])}
    IN IF found = {} THEN None ELSE Some(CHOOSE i \in found : TRUE)


(***************************************************************************)
(* major_updates.rs: ManifestSet and ManifestDependencySet.  Manifests are *)
(* numbered from 1 where the Rust Vec counts from 0.                       *)
(***************************************************************************)
\* the package ids in the order of the BTreeMap IndexedMetadata.packages
PackageOrder == <<"c", "l", "p", "w">>

\* the results of one operation per manifest file, folded into the file system: every
\* file has its own path and an operation writes only there
WrittenFiles(results, fs) ==
    [path \in DOMAIN fs |->
        IF \E i \in 1..Len(results) : results[i].file.path = path
        THEN results[CHOOSE i \in 1..Len(results) : results[i].file.path = path].fs[path]
        ELSE fs[path]]

Files(results) == [i \in 1..Len(results) |-> results[i].file]

\* ManifestSet::collect
ManifestSet_collect(metadata, fs) ==
    LET workspace_manifest == metadata.workspace_root \o <<"Cargo.toml">>
        members == SelectSeq(PackageOrder,
                             LAMBDA id : /\ id \in DOMAIN metadata.packages
                                         /\ id \in Range(metadata.workspace_members))
        member_manifests == [i \in 1..Len(members) |->
                                metadata.packages[members[i]].manifest_path]
        isnt_workspace == member_manifests = <<workspace_manifest>>
        paths == <<workspace_manifest>>
                     \o (IF isnt_workspace THEN <<>> ELSE member_manifests)
    IN [i \in 1..Len(paths) |-> open(paths[i], fs)]

RECURSIVE Distinct(_)
\* a sequence without its repetitions, first occurrences kept
Distinct(seq) ==
    IF seq = <<>> THEN <<>>
    ELSE <<Head(seq)>> \o Distinct(SelectSeq(Tail(seq), LAMBDA x : x # Head(seq)))

\* ManifestDependencySet::dependency_toml_paths
dependency_toml_paths(manifest) ==
    LET in_target == SelectSeq(manifest.document, LAMBDA e : Head(e.table) = "target")
        targets == Distinct([i \in 1..Len(in_target) |-> in_target[i].table[2]])
        kinds == <<"dependencies", "build-dependencies", "dev-dependencies">>
    IN [i \in 1..3 |-> <<kinds[i]>>]
           \o Concat([t \in 1..Len(targets) |->
                         [i \in 1..3 |-> <<"target", targets[t], kinds[i]>>]])

\* ManifestDependencySet::read_version
read_version(manifest, toml_path) ==
    ParseVersionReq(
        VersionLeaf(manifest.document[path_lookup(manifest.document, toml_path).value]).value)

\* ManifestDependencySet::collect_dependencies: the mentions of one manifest, each with
\* the crate name it is filed under, in the order they are pushed
collect_dependencies(manifest_idx, manifest) ==
    LET dep_paths == dependency_toml_paths(manifest)
        mention_of(e) ==
            IF /\ e.item.tag = "Table"
               /\ (e.item.registry \/ e.item.version.tag = "None" \/ e.item.git)
            THEN None
            ELSE Some([package |-> IF e.item.tag = "Table" /\ e.item.package.tag = "Some"
                                   THEN e.item.package.value
                                   ELSE e.name,
                       mention |-> [manifest_idx |-> manifest_idx,
                                    toml_path |-> VersionPath(e),
                                    version |-> read_version(manifest, VersionPath(e))]])
        in_table(dep_path) == SelectSeq(manifest.document, LAMBDA e : e.table = dep_path)
    IN Concat([d \in 1..Len(dep_paths) |->
                  FilterMap([i \in 1..Len(in_table(dep_paths[d])) |->
                                mention_of(in_table(dep_paths[d])[i])], 1)])

\* ManifestDependencySet::collect
ManifestDependencySet_collect(metadata, fs) ==
    LET opened == ManifestSet_collect(metadata, fs)
        found == Concat([idx \in 1..Len(opened) |-> collect_dependencies(idx, opened[idx])])
        under(name) == SelectSeq(found, LAMBDA m : m.package = name)
    IN [manifests |-> opened,
        dependencies |-> [name \in {found[i].package : i \in 1..Len(found)} |->
                             [i \in 1..Len(under(name)) |-> under(name)[i].mention]]]

\* the results of a loop over the manifests that `?` leaves at the first error: the
\* manifests from the failing one on are left as they are
UntilFirstErr(attempts, files, fs) ==
    LET failed == {i \in 1..Len(attempts) : attempts[i].result = "Err"}
    IN [i \in 1..Len(attempts) |->
           IF \A j \in failed : i < j THEN attempts[i]
           ELSE [file |-> files[i], fs |-> fs, result |-> attempts[i].result]]

\* the Result of a sequence of calls joined with `?`
AllOk(results) ==
    IF \A i \in 1..Len(results) : results[i].result = "Ok" THEN "Ok" ELSE "Err"

\* ManifestSet::write_back
ManifestSet_write_back(files, fs, failing) ==
    LET results == UntilFirstErr([i \in 1..Len(files) |-> write_back(files[i], fs, failing)],
                                 files, fs)
    IN [manifests |-> Files(results), fs |-> WrittenFiles(results, fs),
        result |-> AllOk(results)]

\* variant of commit that advances the baseline of each manifest as soon as it is written
ManifestDependencySet_commit_one_by_one(files, fs, failing) ==
    LET results == UntilFirstErr([i \in 1..Len(files) |-> commit(files[i], fs, failing)],
                                 files, fs)
    IN [manifests |-> Files(results), fs |-> WrittenFiles(results, fs),
        result |-> AllOk(results)]

\* ManifestDependencySet::commit
ManifestDependencySet_commit(files, fs, failing) ==
    LET written == ManifestSet_write_back(files, fs, failing)
        results == UntilFirstErr([i \in 1..Len(files) |->
                                     commit(written.manifests[i], written.fs, failing)],
                                 written.manifests, written.fs)
    IN IF written.result = "Err" THEN written
       ELSE [manifests |-> Files(results), fs |-> WrittenFiles(results, written.fs),
             result |-> AllOk(results)]

\* variant of roll_back that leaves at the first manifest whose roll-back fails
ManifestDependencySet_roll_back_until_error(files, deps, fs, failing) ==
    LET results == UntilFirstErr([i \in 1..Len(files) |-> roll_back(files[i], fs, failing)],
                                 files, fs)
    IN [manifests |-> Files(results),
        dependencies |-> deps,
        fs |-> WrittenFiles(results, fs),
        result |-> AllOk(results)]

\* variant that leaves every file and every mention as it is
ManifestDependencySet_roll_back_skipped(files, deps, fs, failing) ==
    [manifests |-> files, dependencies |-> deps, fs |-> fs, result |-> TRUE]

\* ManifestDependencySet::roll_back
ManifestDependencySet_roll_back(files, deps, fs, failing) ==
    LET results == [i \in 1..Len(files) |-> roll_back(files[i], fs, failing)]
        rolled == Files(results)
    IN [manifests |-> rolled,
        dependencies |->
            [name \in DOMAIN deps |->
                [i \in 1..Len(deps[name]) |->
                    [deps[name][i] EXCEPT
                        !.version = read_version(rolled[deps[name][i].manifest_idx],
                                                 deps[name][i].toml_path)]]],
        fs |-> WrittenFiles(results, fs),
        result |-> AllOk(results)]


\* variant that removes the caret of the first comparator whatever else the requirement
\* holds
write_version_to_memory_without_caret(files, mention, version) ==
    LET file == files[mention.manifest_idx]
        at == path_lookup(file.document, mention.toml_path).value
        printed == VersionReqToString(version)
        as_string ==
            IF Len(printed) > 0 /\ printed[1].sigil = "caret"
            THEN [printed EXCEPT ![1].sigil = ""]
            ELSE printed
        toml_version == [decor |-> VersionLeaf(file.document[at]).decor,
                         repr |-> None,
                         value |-> as_string]
    IN [manifests |->
            [files EXCEPT ![mention.manifest_idx] =
                [file EXCEPT !.dirty = TRUE,
                             !.document[at] = WithVersionLeaf(@, toml_version)]],
        mention |-> [mention EXCEPT !.version = version]]

\* ManifestSet::write_version_to_memory
write_version_to_memory(files, mention, version) ==
    LET file == files[mention.manifest_idx]
        at == path_lookup(file.document, mention.toml_path).value
        printed == VersionReqToString(version)
        as_string ==
            IF Len(version.comparators) = 1 /\ version.comparators[1].op = "Caret"
            THEN (IF printed[1].sigil = "caret"
                  THEN [printed EXCEPT ![1].sigil = ""]
                  ELSE printed)
            ELSE printed
        toml_version == [decor |-> VersionLeaf(file.document[at]).decor,
                         repr |-> None,
                         value |-> as_string]
    IN [manifests |->
            [files EXCEPT ![mention.manifest_idx] =
                [file EXCEPT !.dirty = TRUE,
                             !.document[at] = WithVersionLeaf(@, toml_version)]],
        mention |-> [mention EXCEPT !.version = version]]

\* variant that writes the caret requirement whether or not the version is a major
\* update
update_version_in_memory_always(files, mention, version) ==
    write_version_to_memory(
        files, mention,
        [comparators |-> <<[op |-> "Caret",
                            major |-> version.major,
                            minor |-> Some(version.minor),
                            patch |-> Some(version.patch),
                            pre |-> version.pre]>>])

\* ManifestSet::update_version_in_memory
update_version_in_memory(files, mention, version) ==
    IF is_major_update_for(mention.version, version) = Ok(TRUE)
    THEN write_version_to_memory(
             files, mention,
             [comparators |-> <<[op |-> "Caret",
                                 major |-> version.major,
                                 minor |-> Some(version.minor),
                                 patch |-> Some(version.patch),
                                 pre |-> version.pre]>>])
    ELSE [manifests |-> files, mention |-> mention]

RECURSIVE update_versions_in_memory(_, _, _, _)
\* ManifestSet::update_versions_in_memory, from mention number i on
update_versions_in_memory(files, mentions, version, i) ==
    IF i > Len(mentions) THEN [manifests |-> files, mentions |-> mentions]
    ELSE LET one == update_version_in_memory(files, mentions[i], version)
         IN update_versions_in_memory(one.manifests,
                                      [mentions EXCEPT ![i] = one.mention],
                                      version, i + 1)

\* ManifestSet::write_back_for_all, with every write succeeding
write_back_for_all(files, mentions, fs) ==
    LET touched == {mentions[i].manifest_idx : i \in 1..Len(mentions)}
        results == [i \in 1..Len(files) |->
                       IF i \in touched THEN write_back(files[i], fs, {})
                       ELSE [file |-> files[i], fs |-> fs]]
    IN [manifests |-> Files(results), fs |-> WrittenFiles(results, fs)]

\* ManifestSet::update_versions_in_file
update_versions_in_file(files, mentions, version, fs) ==
    LET edited == update_versions_in_memory(files, mentions, version, 1)
        written == write_back_for_all(edited.manifests, edited.mentions, fs)
    IN [manifests |-> written.manifests, mentions |-> edited.mentions, fs |-> written.fs]

\* update_version_in_memory reaches the `unreachable!` of is_major_update_for
UpdatePanics(mentions, version) ==
    \E i \in 1..Len(mentions) : is_major_update_for(mentions[i].version, version) = Panic


(***************************************************************************)
(* resolve.rs as one call: the update tasks below take a resolve as a      *)
(* single step.                                                            *)
(***************************************************************************)
RECURSIVE resolve_platform(_, _, _)
\* Resolved::resolve_platform: the work loop run until the queue is empty
resolve_platform(metadata, queue, inc) ==
    IF queue = <<>> THEN inc
    ELSE LET out == VisitTodo(metadata, queue, inc)
         IN resolve_platform(metadata, out.todos, out.included)

RECURSIVE resolve_from_indexed(_, _, _, _)
\* Resolved::resolve_from_indexed: the indexes walked in order into one Included
resolve_from_indexed(w, indexes, i, inc) ==
    IF i > Len(indexes) THEN inc
    ELSE LET metadata == gather(w, indexes[i])
         IN resolve_from_indexed(w, indexes, i + 1,
                                 resolve_platform(metadata, SeedTodos(metadata), inc))

\* Resolved::resolve_from_path
resolve_from_path(w, platform_list, all_platforms) ==
    LET filtered_indexes == [i \in 1..Len(platform_list) |-> Some(platform_list[i])]
    IN IF all_platforms
       THEN [included |-> resolve_from_indexed(w, filtered_indexes \o <<None>>, 1, EmptyMap),
             filtered |-> {}]
       ELSE resolve_filtered_from_indexed(
                resolve_from_indexed(w, filtered_indexes, 1, EmptyMap), gather(w, None))

\* AppContext::resolve
resolve == resolve_from_path(world, platforms, include_all_platforms)


(***************************************************************************)
(* main.rs: major_update_task (task "major", one commit per update) and    *)
(* squashed_update_task (task "squashed", one commit for all).  `before`   *)
(* holds `last`, the Resolved the next diff starts from.                   *)
(***************************************************************************)
\* the workspaces of the update tasks: w and l both depend on p, w on c as well
MajorWorlds ==
    {[wl |-> "N", wp |-> "N", lp |-> "N", wc |-> "N", pc |-> pc_label, cp |-> "none",
      lw |-> "none", proc_macro |-> FALSE] : pc_label \in {"none", "N"}}

\* `let (mut last, minor) = self.minor_update_task()?`
major_minor_update_task ==
    /\ task = "major"
    /\ pc = "start"
    /\ \E ok \in BOOLEAN :
          IF ok
          THEN \E w \in MajorWorlds :
                  /\ world' = w
                  /\ before' = resolve_from_path(w, platforms, include_all_platforms)
                  /\ after' = before'
                  /\ diff' = between(resolve, before')
                  /\ pc' = "new"
          ELSE /\ pc' = "error"
               /\ UNCHANGED <<world, before, after, diff>>
    /\ UNCHANGED <<task, platforms, include_all_platforms, walk, todos, included>>
    /\ UNCHANGED majorVars
    /\ UNCHANGED callVars

\* `let before = self.resolve()?; self.minor_update()?`
squashed_minor_update ==
    /\ task = "squashed"
    /\ pc = "start"
    /\ \E ok \in BOOLEAN :
          IF ok
          THEN /\ before' = resolve
               /\ world' \in MajorWorlds
               /\ pc' = "new"
          ELSE /\ pc' = "error"
               /\ UNCHANGED <<world, before>>
    /\ UNCHANGED <<task, platforms, include_all_platforms, walk, todos, included,
                   after, diff>>
    /\ UNCHANGED majorVars
    /\ UNCHANGED callVars

\* MajorUpdateContext::new
MajorUpdateContext_new ==
    /\ pc = "new"
    /\ \E manifest_deps \in {ManifestDependencySet_collect(gather(world, None), disk)} :
          /\ manifests' = manifest_deps.manifests
          /\ dependencies' = manifest_deps.dependencies
          /\ direct_dependencies' = SortedNames(DOMAIN manifest_deps.dependencies)
    /\ pc' = "baseline"
    /\ UNCHANGED resolveVars_but_pc
    /\ UNCHANGED <<crates_io, disk, candidate, major_updates, failed_major_updates,
                   commits>>
    /\ UNCHANGED callVars

\* `major_ctx.manifest_deps.commit()?` ahead of the loop
baseline_commit ==
    /\ pc = "baseline"
    /\ \E done \in {ManifestDependencySet_commit(manifests, disk, {})} :
          /\ manifests' = done.manifests
          /\ disk' = done.fs
    /\ pc' = "loop"
    /\ UNCHANGED resolveVars_but_pc
    /\ UNCHANGED <<crates_io, dependencies, direct_dependencies, candidate,
                   major_updates, failed_major_updates, commits>>
    /\ UNCHANGED callVars

\* the head of an iteration: `major_ctx.manifest_deps.roll_back()?`
loop_roll_back ==
    /\ pc = "loop"
    /\ direct_dependencies # <<>>
    /\ \E rolled \in {ManifestDependencySet_roll_back(manifests, dependencies, disk, {})} :
          /\ manifests' = rolled.manifests
          /\ dependencies' = rolled.dependencies
          /\ disk' = rolled.fs
    /\ candidate' = Some(Head(direct_dependencies))
    /\ direct_dependencies' = Tail(direct_dependencies)
    /\ pc' = "update_for"
    /\ UNCHANGED resolveVars_but_pc
    /\ UNCHANGED <<crates_io, major_updates, failed_major_updates, commits>>
    /\ UNCHANGED callVars


\* MajorUpdateContext::update_for
update_for ==
    /\ pc = "update_for"
    /\ LET name == candidate.value
           mentions == dependencies[name]
       IN \E latest \in {fetch_latest_major_update_for(crates_io, name,
                                                       MentionVersions(mentions))} :
             IF latest.tag = "Panic"
             THEN /\ pc' = "panic"
                  /\ UNCHANGED <<disk, manifests, dependencies, candidate>>
             ELSE IF latest.value.tag \in {"CrateNotFound", "NoMajorUpdates"}
             THEN /\ pc' = "loop"
                  /\ candidate' = None
                  /\ UNCHANGED <<disk, manifests, dependencies>>
             ELSE IF UpdatePanics(mentions, latest.value.version)
             THEN /\ pc' = "panic"
                  /\ UNCHANGED <<disk, manifests, dependencies, candidate>>
             ELSE \E updated \in {update_versions_in_file(manifests, mentions,
                                                          latest.value.version, disk)} :
                     /\ manifests' = updated.manifests
                     /\ dependencies' = [dependencies EXCEPT ![name] = updated.mentions]
                     /\ disk' = updated.fs
                     /\ candidate' = Some(SpecificCrateIdent(name, latest.value.version))
                     /\ pc' = "try_update"
    /\ UNCHANGED resolveVars_but_pc
    /\ UNCHANGED <<crates_io, direct_dependencies, major_updates, failed_major_updates,
                   commits>>
    /\ UNCHANGED callVars

\* `if !self.try_update()? { failed_major_updates.push(package); continue; }`
try_update ==
    /\ pc = "try_update"
    /\ \E ok \in BOOLEAN :
          IF ok
          THEN /\ world' \in MajorWorlds
               /\ pc' = IF task = "major" THEN "resolve" ELSE "commit"
               /\ UNCHANGED failed_major_updates
          ELSE /\ failed_major_updates' = Append(failed_major_updates, candidate.value)
               /\ pc' = "loop"
               /\ UNCHANGED world
    /\ UNCHANGED <<task, platforms, include_all_platforms, walk, todos, included,
                   before, after, diff>>
    /\ UNCHANGED <<crates_io, disk, manifests, dependencies, direct_dependencies,
                   candidate, major_updates, commits>>
    /\ UNCHANGED callVars

\* split updates: `let resolve = self.resolve()?; let diff = Diff::between(&last, &resolve)`
split_resolve ==
    /\ task = "major"
    /\ pc = "resolve"
    /\ after' = resolve
    /\ diff' = between(before, after')
    /\ pc' = "git_commit"
    /\ UNCHANGED <<task, world, platforms, include_all_platforms, walk, todos, included,
                   before>>
    /\ UNCHANGED majorVars
    /\ UNCHANGED callVars

\* MajorUpdateContext::git_commit_after_update: every manifest file is staged as it is
\* on disk, then committed
git_commit_after_update ==
    /\ pc = "git_commit"
    /\ commits' = Append(commits,
                         [path \in {manifests[i].path : i \in 1..Len(manifests)} |->
                             disk[path]])
    /\ pc' = IF task = "major" THEN "commit" ELSE "done"
    /\ UNCHANGED resolveVars_but_pc
    /\ UNCHANGED <<crates_io, disk, manifests, dependencies, direct_dependencies,
                   candidate, major_updates, failed_major_updates>>
    /\ UNCHANGED callVars

\* the tail of a successful iteration: `major_ctx.manifest_deps.commit()?` and the push
candidate_commit ==
    /\ pc = "commit"
    /\ \E done \in {ManifestDependencySet_commit(manifests, disk, {})} :
          /\ manifests' = done.manifests
          /\ disk' = done.fs
    /\ major_updates' = Append(major_updates,
                               IF task = "major" THEN candidate.value.name
                               ELSE candidate.value)
    /\ before' = IF task = "major" THEN after ELSE before
    /\ pc' = "loop"
    /\ UNCHANGED <<task, world, platforms, include_all_platforms, walk, todos, included,
                   after, diff>>
    /\ UNCHANGED <<crates_io, dependencies, direct_dependencies, candidate,
                   failed_major_updates, commits>>
    /\ UNCHANGED callVars

\* the loop is over: the split task returns, the squashed task resolves for its one commit
loop_exit ==
    /\ pc = "loop"
    /\ direct_dependencies = <<>>
    /\ IF task = "major"
       THEN /\ pc' = "done"
            /\ UNCHANGED <<after, diff>>
       ELSE /\ after' = resolve
            /\ diff' = between(before, after')
            /\ pc' = "git_commit"
    /\ UNCHANGED <<task, world, platforms, include_all_platforms, walk, todos, included,
                   before>>
    /\ UNCHANGED majorVars
    /\ UNCHANGED callVars


(***************************************************************************)
(* The workspaces the update tasks start from: the manifests of w and l    *)
(* as written by hand, and what crates.io lists for p and c.               *)
(***************************************************************************)
ComparatorText(sigil, major, minor, patch, wildcard) ==
    [sigil |-> sigil, major |-> major, minor |-> minor, patch |-> patch, pre |-> 0,
     wildcard |-> wildcard]

\* `1.0.0`, `<2.0.0`, `=1.0.0` and `1.*`
Bare100 == <<ComparatorText("", 1, Some(0), Some(0), FALSE)>>
Less200 == <<ComparatorText("lt", 2, Some(0), Some(0), FALSE)>>
Exact100 == <<ComparatorText("eq", 1, Some(0), Some(0), FALSE)>>
Wild1 == <<ComparatorText("", 1, None, None, TRUE)>>

StringItem(quote, str) ==
    [tag |-> "String", leaf |-> [decor |-> " ", quote |-> quote, str |-> str]]

TableItem(version) ==
    [tag |-> "Table", package |-> None, version |-> version, registry |-> FALSE,
     git |-> FALSE]

Declaration(table, name, item) == [table |-> table, name |-> name, item |-> item]

\* the three manifest files of the workspace
DiskOf(l_p, w_c, w_p) ==
    (<<"ws", "Cargo.toml">> :> <<>>)
    @@ (<<"ws", "l", "Cargo.toml">> :>
           <<Declaration(<<"dependencies">>, "p", StringItem("basic", l_p))>>)
    @@ (<<"ws", "w", "Cargo.toml">> :>
           <<Declaration(<<"dependencies">>, "l", TableItem(None)),
             Declaration(<<"dependencies">>, "p", StringItem("literal", w_p)),
             Declaration(<<"dev-dependencies">>, "c",
                         TableItem(Some([decor |-> "", quote |-> "basic", str |-> w_c])))>>)

Disks ==
    {DiskOf(l_p, w_c, w_p) : l_p \in {Bare100, Less200, Wild1},
                             w_c \in {Bare100, Exact100},
                             w_p \in {Bare100, Less200, Wild1}}

Published(version) == [num |-> version, yanked |-> FALSE]
Yanked(version) == [num |-> version, yanked |-> TRUE]

\* what crates.io may list for p; the last list ends in the prerelease 2.0.0-1
ListingsOfP ==
    {{Published(Ver(1, 0, 0))},
     {Published(Ver(1, 0, 0)), Published(Ver(2, 0, 0))},
     {Published(Ver(1, 0, 0)), Published(Ver(2, 0, 0)), Yanked(Ver(3, 0, 0))},
     {Published(Ver(1, 0, 0)), Published([Ver(2, 0, 0) EXCEPT !.pre = 1])}}

ListingsOfC ==
    {{Published(Ver(1, 0, 0))},
     {Published(Ver(1, 0, 0)), Published(Ver(2, 0, 0))}}

\* crates.io knows c, and p unless p was never published there
Registries ==
    {("c" :> of_c) @@ ("p" :> of_p) : of_c \in ListingsOfC, of_p \in ListingsOfP}
    \cup {("c" :> of_c) : of_c \in ListingsOfC}

MajorInit ==
    /\ task \in {"major", "squashed"}
    /\ pc = "start"
    /\ world \in MajorWorlds
    /\ platforms = <<"X">>
    /\ include_all_platforms = FALSE
    /\ walk = 0
    /\ todos = <<>>
    /\ included = EmptyMap
    /\ before = None
    /\ after = None
    /\ diff = None
    /\ crates_io \in Registries
    /\ disk \in Disks
    /\ manifests = <<>>
    /\ dependencies = EmptyMap
    /\ direct_dependencies = <<>>
    /\ candidate = None
    /\ major_updates = <<>>
    /\ failed_major_updates = <<>>
    /\ commits = <<>>
    /\ NoCall

MajorNext ==
    \/ major_minor_update_task
    \/ squashed_minor_update
    \/ MajorUpdateContext_new
    \/ baseline_commit
    \/ loop_roll_back
    \/ update_for
    \/ try_update
    \/ split_resolve
    \/ git_commit_after_update
    \/ candidate_commit
    \/ loop_exit

\* AppContext::major_update_task and AppContext::squashed_update_task
MajorSpec == MajorInit /\ [][MajorNext]_vars

(***************************************************************************)
(* Claims about the update loops.                                          *)
(***************************************************************************)
\* every manifest file holds the text of its committed baseline
ManifestsAtBaseline ==
    \A i \in 1..Len(manifests) : disk[manifests[i].path] = manifests[i].previous_contents

\* C4: a candidate whose update is rejected lands in failed_major_updates and its edit
\* is rolled back, the last candidate included: when the split task returns, and when
\* the squashed task stages the manifests for its commit, every manifest file equals
\* its committed baseline.
C4_FailedUpdateRolledBack ==
    (pc = "done" \/ (task = "squashed" /\ pc = "git_commit")) => ManifestsAtBaseline


(***************************************************************************)
(* is_major_update_for and fetch_latest_major_update_for called on their   *)
(* own, with the requirements a manifest can spell and the listings        *)
(* crates.io can answer with.                                              *)
(***************************************************************************)
\* the comparators a manifest can spell over majors 1 and 2: `2`, `2.*`, `2.1`,
\* `2.1.*`, `2.1.0` and `2.1.0-1`, each bare or behind one of the seven sigils
ComparatorTexts ==
    LET Sigils == {"", "eq", "gt", "ge", "lt", "le", "tilde", "caret"}
    IN {ComparatorText(sigil, major, None, None, wildcard) :
            sigil \in Sigils, major \in 1..2, wildcard \in BOOLEAN}
       \cup {ComparatorText(sigil, major, Some(minor), None, wildcard) :
                sigil \in Sigils, major \in 1..2, minor \in 0..1, wildcard \in BOOLEAN}
       \cup {[ComparatorText(sigil, major, Some(minor), Some(0), FALSE) EXCEPT !.pre = pre] :
                sigil \in Sigils, major \in 1..2, minor \in 0..1, pre \in 0..1}

\* `*`, every single comparator, and every pair of the comparators that are a bare
\* major, a major wildcard or a full version without prerelease
RequirementTexts ==
    LET Paired == {text \in ComparatorTexts :
                      /\ text.pre = 0
                      /\ text.minor # None => (text.minor = Some(0) /\ text.patch # None)}
    IN {<<>>}
       \cup {<<text>> : text \in ComparatorTexts}
       \cup {<<first, second>> : first \in Paired, second \in Paired}

\* the versions asked about: 1.0.0 to 3.1.0, released or the prerelease -1
AskedVersions ==
    {[Ver(major, minor, 0) EXCEPT !.pre = pre] : major \in 1..3, minor \in 0..1, pre \in 0..1}

\* what crates.io may list for p: each of 1.0.0, 1.1.0, 2.0.0 and 3.0.0 published,
\* yanked or never released
ListingsAsked ==
    LET Numbers == {Ver(1, 0, 0), Ver(1, 1, 0), Ver(2, 0, 0), Ver(3, 0, 0)}
        States == [Numbers -> {"published", "yanked", "absent"}]
    IN {{Published(num) : num \in {n \in Numbers : state[n] = "published"}}
            \cup {Yanked(num) : num \in {n \in Numbers : state[n] = "yanked"}} :
        state \in States}

\* the requirements of the mentions of p: one or two of `1.0.0`, `<2.0.0`, `=1.0.0`,
\* `1.*`, `<=2.0.0`, `^2.0.0`, `>=1.1.0` and `*`
MentionedReqs ==
    LET Texts == {Bare100, Less200, Exact100, Wild1,
                  <<ComparatorText("le", 2, Some(0), Some(0), FALSE)>>,
                  <<ComparatorText("caret", 2, Some(0), Some(0), FALSE)>>,
                  <<ComparatorText("ge", 1, Some(1), Some(0), FALSE)>>,
                  <<>>}
        Reqs == {ParseVersionReq(text) : text \in Texts}
    IN {<<req>> : req \in Reqs} \cup {<<first, second>> : first \in Reqs, second \in Reqs}

\* one call of is_major_update_for
is_major_update_for_call ==
    /\ task = "is_major_update_for"
    /\ pc = "call"
    /\ returned' = is_major_update_for(args.requirement, args.version)
    /\ pc' = "done"
    /\ UNCHANGED <<resolveVars_but_pc, majorVars, args>>

\* one call of fetch_latest_major_update_for
fetch_latest_major_update_for_call ==
    /\ task = "fetch_latest_major_update_for"
    /\ pc = "call"
    /\ returned' = fetch_latest_major_update_for(crates_io, args.name, args.reqs)
    /\ pc' = "done"
    /\ UNCHANGED <<resolveVars_but_pc, majorVars, args>>

\* DependencyKind::then on three kinds, in both groupings, and on NORMAL from both sides
then_call ==
    /\ task = "DependencyKind"
    /\ pc = "call"
    /\ returned' = [call |-> "then",
                    left_first |-> then(then(args.a, args.b), args.c),
                    right_first |-> then(args.a, then(args.b, args.c)),
                    after_normal |-> then(NORMAL, args.a),
                    before_normal |-> then(args.a, NORMAL)]
    /\ pc' = "done"
    /\ UNCHANGED <<resolveVars_but_pc, majorVars, args>>

\* DependencyKind::merged_with on two kinds, in both orders, and on a kind and itself
merged_with_call ==
    /\ task = "DependencyKind"
    /\ pc = "call"
    /\ returned' = [call |-> "merged_with",
                    forth |-> merged_with(args.a, args.b),
                    back |-> merged_with(args.b, args.a),
                    twice |-> merged_with(args.a, args.a)]
    /\ pc' = "done"
    /\ UNCHANGED <<resolveVars_but_pc, majorVars, args>>

\* the requirements written: `2.0.0`, `^2`, `^2.0.0-1`, `=1.0.0`, `1.*`, `<2.0.0`,
\* `~2.0.0`, `^1.0.0, <2.0.0` and `*`
WrittenReqs ==
    {ParseVersionReq(text) :
        text \in {<<ComparatorText("", 2, Some(0), Some(0), FALSE)>>,
                  <<ComparatorText("caret", 2, None, None, FALSE)>>,
                  <<[ComparatorText("caret", 2, Some(0), Some(0), FALSE) EXCEPT !.pre = 1]>>,
                  Exact100, Wild1, Less200,
                  <<ComparatorText("tilde", 2, Some(0), Some(0), FALSE)>>,
                  <<ComparatorText("caret", 1, Some(0), Some(0), FALSE),
                    ComparatorText("lt", 2, Some(0), Some(0), FALSE)>>,
                  <<>>}}

\* the versions updated to: 1.0.0, 1.1.0, 2.0.0, 2.0.0-1 and 3.0.0
UpdateVersions ==
    {Ver(1, 0, 0), Ver(1, 1, 0), Ver(2, 0, 0), [Ver(2, 0, 0) EXCEPT !.pre = 1],
     Ver(3, 0, 0)}

\* the manifests of a workspace as collected, the mentions of one crate and one of them
MentionArgs(w) ==
    UNION {LET manifest_deps == ManifestDependencySet_collect(gather(w, None), fs)
           IN {[manifests |-> manifest_deps.manifests,
                mentions |-> manifest_deps.dependencies[name],
                which |-> which,
                written |-> written,
                version |-> version] :
                   name \in DOMAIN manifest_deps.dependencies,
                   which \in 1..2,
                   written \in WrittenReqs,
                   version \in UpdateVersions} : fs \in Disks}

\* one call of ManifestSet::write_version_to_memory
write_version_to_memory_call ==
    /\ task = "ManifestSet"
    /\ pc = "call"
    /\ \E out \in {write_version_to_memory(args.manifests, args.mentions[args.which],
                                           args.written)} :
          returned' = [call |-> "write_version_to_memory", result |-> "Ok",
                       manifests |-> out.manifests, mention |-> out.mention]
    /\ pc' = "done"
    /\ UNCHANGED <<resolveVars_but_pc, majorVars, args>>

\* one call of ManifestSet::update_version_in_memory; a panic of is_major_update_for
\* leaves the manifests and the mention as they were
update_version_in_memory_call ==
    /\ task = "ManifestSet"
    /\ pc = "call"
    /\ LET mention == args.mentions[args.which]
       IN IF UpdatePanics(<<mention>>, args.version)
          THEN returned' = [call |-> "update_version_in_memory", result |-> "Panic",
                            manifests |-> args.manifests, mention |-> mention]
          ELSE \E out \in {update_version_in_memory(args.manifests, mention,
                                                     args.version)} :
                  returned' = [call |-> "update_version_in_memory", result |-> "Ok",
                               manifests |-> out.manifests, mention |-> out.mention]
    /\ pc' = "done"
    /\ UNCHANGED <<resolveVars_but_pc, majorVars, args>>

\* one call of ManifestSet::update_versions_in_memory; a panic of is_major_update_for
\* ends the loop at the mention it is asked about
update_versions_in_memory_of_call ==
    /\ task = "ManifestSet"
    /\ pc = "call"
    /\ LET panicking == {i \in 1..Len(args.mentions) :
                            UpdatePanics(<<args.mentions[i]>>, args.version)}
           first == CHOOSE i \in panicking : \A j \in panicking : i <= j
           reached == IF panicking = {} THEN args.mentions
                      ELSE SubSeq(args.mentions, 1, first - 1)
           rest == IF panicking = {} THEN <<>>
                   ELSE SubSeq(args.mentions, first, Len(args.mentions))
       IN \E out \in {update_versions_in_memory(args.manifests, reached,
                                                 args.version, 1)} :
             returned' = [call |-> "update_versions_in_memory",
                          result |-> IF panicking = {} THEN "Ok" ELSE "Panic",
                          manifests |-> out.manifests,
                          mentions |-> out.mentions \o rest]
    /\ pc' = "done"
    /\ UNCHANGED <<resolveVars_but_pc, majorVars, args>>

CallInit ==
    /\ pc = "call"
    /\ world \in {w \in MajorWorlds : w.pc = "none"}
    /\ platforms = <<"X">>
    /\ include_all_platforms = FALSE
    /\ walk = 0
    /\ todos = <<>>
    /\ included = EmptyMap
    /\ before = None
    /\ after = None
    /\ diff = None
    /\ disk = EmptyMap
    /\ manifests = <<>>
    /\ dependencies = EmptyMap
    /\ direct_dependencies = <<>>
    /\ candidate = None
    /\ major_updates = <<>>
    /\ failed_major_updates = <<>>
    /\ commits = <<>>
    /\ returned = None
    /\ \/ /\ task = "is_major_update_for"
          /\ crates_io = EmptyMap
          /\ args \in {[requirement |-> ParseVersionReq(text), version |-> version] :
                          text \in RequirementTexts, version \in AskedVersions}
       \/ /\ task = "fetch_latest_major_update_for"
          /\ crates_io \in {("p" :> listing) : listing \in ListingsAsked} \cup {EmptyMap}
          /\ args \in {[name |-> "p", reqs |-> reqs] : reqs \in MentionedReqs}
       \/ /\ task = "DependencyKind"
          /\ crates_io = EmptyMap
          /\ args \in [a : DependencyKind, b : DependencyKind, c : DependencyKind]
       \/ /\ task = "ManifestSet"
          /\ crates_io = EmptyMap
          /\ args \in {a \in MentionArgs(world) : a.which <= Len(a.mentions)}

CallNext ==
    \/ is_major_update_for_call
    \/ fetch_latest_major_update_for_call
    \/ then_call
    \/ merged_with_call
    \/ write_version_to_memory_call
    \/ update_version_in_memory_call
    \/ update_versions_in_memory_of_call

CallSpec == CallInit /\ [][CallNext]_vars

(***************************************************************************)
(* Claims about is_major_update_for.                                       *)
(***************************************************************************)
\* the implicit tuple of a comparator: its numbers, a missing minor or patch taken
\* from the version, without prerelease
ImplicitTuple(comparator, version) ==
    Ver(comparator.major,
        IF comparator.minor = None THEN version.minor ELSE comparator.minor.value,
        IF comparator.patch = None THEN version.patch ELSE comparator.patch.value)

\* the four conditions under which a version is a major update for a requirement, the
\* third with the operators that name the version as an upper bound
FourConditions(requirement, version, upper_bounds) ==
    LET comparators == Range(requirement.comparators)
        stripped == [version EXCEPT !.pre = 0]
    IN /\ ~matches(requirement, version)
       /\ version.pre = 0
       /\ \A c \in comparators : c.op \in upper_bounds => ImplicitTuple(c, version) # stripped
       /\ \A c \in comparators :
             c.op \in {"Exact", "Greater", "GreaterEq", "Tilde", "Caret"}
                 => ~VersionLeq(stripped, ImplicitTuple(c, version))

C12_WildcardNeverPanics ==
    (/\ task = "is_major_update_for"
     /\ pc = "done"
     /\ \E c \in Range(args.requirement.comparators) : c.op = "Wildcard")
        => returned \in {Ok(TRUE), Ok(FALSE)}

(***************************************************************************)
(* Claims about fetch_latest_major_update_for.                             *)
(***************************************************************************)
\* the listed versions of the crate that are not yanked and are a major update for at
\* least one of the requirements asked about
MajorUpdatesListed ==
    {v.num : v \in {x \in crates_io[args.name] :
                       /\ ~x.yanked
                       /\ \E i \in 1..Len(args.reqs) :
                             FourConditions(args.reqs[i], x.num,
                                            {"Less", "LessEq"})}}

\* C20: fetch_latest_major_update_for returns CrateNotFound for a crate the registry
\* does not know, otherwise NewestUpdate of the largest listed version that is not
\* yanked and is a major update for one of the requirements, and NoMajorUpdates when
\* there is none; a yanked version is never returned.
C20_LatestMajorUpdate ==
    (task = "fetch_latest_major_update_for" /\ pc = "done") =>
        IF args.name \notin DOMAIN crates_io
        THEN returned = Ok([tag |-> "CrateNotFound"])
        ELSE IF MajorUpdatesListed = {}
        THEN returned = Ok([tag |-> "NoMajorUpdates"])
        ELSE /\ returned = Ok([tag |-> "NewestUpdate",
                               version |-> MaxVersion(MajorUpdatesListed)])
             /\ ~\E x \in crates_io[args.name] : x.yanked /\ x.num = returned.value.version


(***************************************************************************)
(* ManifestDependencySet on its own: the manifests of a workspace are      *)
(* opened, then edited in memory, written back, committed and rolled back  *)
(* in any order, and any write of a call may fail.  args holds the set,    *)
(* the files and the failing paths a call started with, returned what it   *)
(* answered.                                                               *)
(***************************************************************************)
\* the versions update_versions_in_memory is called with
EditVersions == {Ver(2, 0, 0)}

\* the paths whose writes fail during one call: any of the manifest paths
Failures == SUBSET {manifests[i].path : i \in 1..Len(manifests)}

\* what a call started with
CallArgs(failing) ==
    [manifests |-> manifests, dependencies |-> dependencies, disk |-> disk,
     failing |-> failing]

\* ManifestDependencySet::collect
ManifestDependencySet_collect_call ==
    /\ task = "manifests"
    /\ pc = "open"
    /\ \E manifest_deps \in {ManifestDependencySet_collect(gather(world, None), disk)} :
          /\ manifests' = manifest_deps.manifests
          /\ dependencies' = manifest_deps.dependencies
    /\ args' = CallArgs({})
    /\ returned' = [call |-> "collect", result |-> "Ok"]
    /\ pc' = "opened"
    /\ UNCHANGED resolveVars_but_pc
    /\ UNCHANGED <<crates_io, disk, direct_dependencies, candidate, major_updates,
                   failed_major_updates, commits>>

\* ManifestSet::update_versions_in_memory for the mentions of one crate
update_versions_in_memory_call ==
    /\ task = "manifests"
    /\ pc = "opened"
    /\ \E name \in DOMAIN dependencies, version \in EditVersions :
          IF UpdatePanics(dependencies[name], version)
          THEN /\ pc' = "panic"
               /\ returned' = Panic
               /\ UNCHANGED <<manifests, dependencies>>
          ELSE \E edited \in {update_versions_in_memory(manifests, dependencies[name],
                                                        version, 1)} :
                  /\ manifests' = edited.manifests
                  /\ dependencies' = [dependencies EXCEPT ![name] = edited.mentions]
                  /\ returned' = [call |-> "update_versions_in_memory", result |-> "Ok"]
                  /\ pc' = pc
    /\ args' = CallArgs({})
    /\ UNCHANGED resolveVars_but_pc
    /\ UNCHANGED <<crates_io, disk, direct_dependencies, candidate, major_updates,
                   failed_major_updates, commits>>

\* ManifestSet::write_back_for: MutableTomlFile::write_back of one manifest
write_back_for_call ==
    /\ task = "manifests"
    /\ pc = "opened"
    /\ \E name \in DOMAIN dependencies, failing \in Failures :
          \E k \in 1..Len(dependencies[name]) :
          \E idx \in {dependencies[name][k].manifest_idx} :
          \E written \in {write_back(manifests[idx], disk, failing)} :
             /\ manifests' = [manifests EXCEPT ![idx] = written.file]
             /\ disk' = written.fs
             /\ args' = CallArgs(failing)
             /\ returned' = [call |-> "write_back_for", result |-> written.result]
    /\ UNCHANGED resolveVars
    /\ UNCHANGED <<crates_io, dependencies, direct_dependencies, candidate, major_updates,
                   failed_major_updates, commits>>

\* ManifestDependencySet::commit
ManifestDependencySet_commit_call ==
    /\ task = "manifests"
    /\ pc = "opened"
    /\ \E failing \in Failures :
          \E done \in {ManifestDependencySet_commit(manifests, disk, failing)} :
             /\ manifests' = done.manifests
             /\ disk' = done.fs
             /\ args' = CallArgs(failing)
             /\ returned' = [call |-> "commit", result |-> done.result]
    /\ UNCHANGED resolveVars
    /\ UNCHANGED <<crates_io, dependencies, direct_dependencies, candidate, major_updates,
                   failed_major_updates, commits>>

\* ManifestDependencySet::roll_back
ManifestDependencySet_roll_back_call ==
    /\ task = "manifests"
    /\ pc = "opened"
    /\ \E failing \in Failures :
          \E rolled \in {ManifestDependencySet_roll_back(manifests, dependencies, disk,
                                                         failing)} :
             /\ manifests' = rolled.manifests
             /\ dependencies' = rolled.dependencies
             /\ disk' = rolled.fs
             /\ args' = CallArgs(failing)
             /\ returned' = [call |-> "roll_back", result |-> rolled.result]
    /\ UNCHANGED resolveVars
    /\ UNCHANGED <<crates_io, direct_dependencies, candidate, major_updates,
                   failed_major_updates, commits>>

ManifestInit ==
    /\ task = "manifests"
    /\ pc = "open"
    /\ world \in {w \in MajorWorlds : w.pc = "none"}
    /\ platforms = <<"X">>
    /\ include_all_platforms = FALSE
    /\ walk = 0
    /\ todos = <<>>
    /\ included = EmptyMap
    /\ before = None
    /\ after = None
    /\ diff = None
    /\ crates_io = EmptyMap
    /\ disk \in Disks
    /\ manifests = <<>>
    /\ dependencies = EmptyMap
    /\ direct_dependencies = <<>>
    /\ candidate = None
    /\ major_updates = <<>>
    /\ failed_major_updates = <<>>
    /\ commits = <<>>
    /\ NoCall

ManifestNext ==
    \/ ManifestDependencySet_collect_call
    \/ update_versions_in_memory_call
    \/ write_back_for_call
    \/ ManifestDependencySet_commit_call
    \/ ManifestDependencySet_roll_back_call

ManifestSpec == ManifestInit /\ [][ManifestNext]_vars

(***************************************************************************)
(* Claims about MutableTomlFile and ManifestDependencySet.                 *)
(***************************************************************************)
\* the last call was the named one, and it returned
Called(name) == "call" \in DOMAIN returned /\ returned.call = name

\* the manifests, by number
ManifestIndexes == 1..Len(manifests)

\* the committed baselines did not change during the last call
BaselinesKept ==
    \A i \in ManifestIndexes :
        manifests[i].previous_contents = args.manifests[i].previous_contents

\* C17: after open and any sequence of edits in memory and write-backs, a roll_back of
\* a MutableTomlFile that succeeds leaves the file with the text of the committed
\* baseline, the document as the parse of that baseline and the dirty flag clear; the
\* baseline is the text read at open or the text of the last commit.
C17_RollBackRestoresBaseline ==
    task = "manifests" =>
        /\ Called("collect") =>
              \A i \in ManifestIndexes :
                  manifests[i].previous_contents = disk[manifests[i].path]
        /\ (Called("update_versions_in_memory") \/ Called("write_back_for")
               \/ Called("roll_back")) => BaselinesKept
        /\ Called("commit") =>
              \A i \in ManifestIndexes :
                  \/ manifests[i].previous_contents = args.manifests[i].previous_contents
                  \/ manifests[i].previous_contents = disk[manifests[i].path]
        /\ Called("roll_back") =>
              \A i \in ManifestIndexes :
                  manifests[i].path \notin args.failing =>
                      /\ disk[manifests[i].path] = args.manifests[i].previous_contents
                      /\ manifests[i].document
                             = ParseDocument(args.manifests[i].previous_contents)
                      /\ ~manifests[i].dirty

\* C17 witness: a roll_back succeeded on a manifest that had been edited and written
\* back, so that its file differed from its baseline
C17_Witness ==
    /\ task = "manifests"
    /\ Called("roll_back")
    /\ \E i \in ManifestIndexes :
          /\ manifests[i].path \notin args.failing
          /\ args.disk[manifests[i].path] # args.manifests[i].previous_contents
          /\ disk[manifests[i].path] = manifests[i].previous_contents

\* C18: ManifestDependencySet::commit writes back every manifest before it advances a
\* baseline: a commit in which a write-back fails returns an error and changes no
\* baseline, a commit that changes a baseline has written back every manifest, and a
\* roll_back that succeeds afterwards leaves every manifest file, rewritten or not, with
\* the baseline held before it.
C18_FailedCommitKeepsBaselines ==
    task = "manifests" =>
        /\ Called("commit") =>
              /\ returned.result = "Err"
                    <=> \E i \in ManifestIndexes :
                           /\ args.manifests[i].dirty
                           /\ manifests[i].path \in args.failing
              /\ returned.result = "Err" => BaselinesKept
              /\ ~BaselinesKept => \A i \in ManifestIndexes : ~manifests[i].dirty
        /\ (Called("roll_back") /\ returned.result = "Ok") =>
              \A i \in ManifestIndexes :
                  disk[manifests[i].path] = args.manifests[i].previous_contents

\* C18 witness: a commit failed after it had rewritten the file of an earlier manifest
C18_Witness ==
    /\ task = "manifests"
    /\ Called("commit")
    /\ returned.result = "Err"
    /\ \E i \in ManifestIndexes : disk[manifests[i].path] # args.disk[manifests[i].path]

\* the requirement the baseline of a mention's manifest holds at the mention's TOML path
BaselineRequirement(mention) ==
    LET contents == manifests[mention.manifest_idx].previous_contents
    IN ParseVersionReq(VersionLeaf(contents[path_lookup(contents, mention.toml_path).value]).str)

\* C19: ManifestDependencySet::roll_back tries the roll-back of every manifest, also
\* after one failed, then re-reads the version of every mention, which is then the
\* requirement the baseline holds at the mention's TOML path; it returns an error
\* exactly if the roll-back of a manifest failed, and it changes no baseline.
C19_RollBackAttemptsAll ==
    (task = "manifests" /\ Called("roll_back")) =>
        /\ \A i \in ManifestIndexes :
              /\ manifests[i].document = ParseDocument(manifests[i].previous_contents)
              /\ manifests[i].path \notin args.failing =>
                    disk[manifests[i].path] = manifests[i].previous_contents
        /\ \A name \in DOMAIN dependencies :
              \A k \in 1..Len(dependencies[name]) :
                  dependencies[name][k].version = BaselineRequirement(dependencies[name][k])
        /\ returned.result = "Err"
              <=> \E i \in ManifestIndexes : manifests[i].path \in args.failing
        /\ BaselinesKept

\* C19 witness: the roll-back of one manifest failed, a later manifest was restored all
\* the same, and the version of a mention was reset
C19_Witness ==
    /\ task = "manifests"
    /\ Called("roll_back")
    /\ returned.result = "Err"
    /\ \E i \in ManifestIndexes, j \in ManifestIndexes :
          /\ i < j
          /\ manifests[i].path \in args.failing
          /\ manifests[j].path \notin args.failing
          /\ disk[manifests[j].path] # args.disk[manifests[j].path]
    /\ dependencies # args.dependencies


(***************************************************************************)
(* Claims about DependencyKind.                                            *)
(***************************************************************************)
\* C22: merged_with is idempotent and commutative, and then is associative with NORMAL
\* as identity on both sides, for all four kinds.
C22_KindAlgebra ==
    (task = "DependencyKind" /\ pc = "done") =>
        /\ returned.call = "merged_with" =>
              /\ returned.twice = args.a
              /\ returned.forth = returned.back
        /\ returned.call = "then" =>
              /\ returned.left_first = returned.right_first
              /\ returned.after_normal = args.a
              /\ returned.before_normal = args.a

\* C22 witness: then was applied to a debug-only build kind, which is none of the three
\* named kinds, after a development kind and before a build kind
C22_Witness ==
    /\ task = "DependencyKind"
    /\ pc = "done"
    /\ returned.call = "then"
    /\ args.a = DEVELOPMENT
    /\ args.b = then(BUILD, DEVELOPMENT)
    /\ args.c = BUILD
    /\ returned.left_first = args.b


(***************************************************************************)
(* Claims about resolve_from_path.                                         *)
(***************************************************************************)
\* the registry (name, version) of the packages the lockfile of the world holds
LockedRegistryIdents ==
    {SpecificCrateIdent(PackageTable[id].name, PackageTable[id].version) :
        id \in {i \in LockedPackages(world) : PackageTable[i].source # None}}

\* C21: in filter-to-platforms mode the unfiltered index is never walked and filtered
\* holds exactly the registry (name, version) of the unfiltered index that are not in
\* included; in every mode filtered and included share no (name, version).
C21_FilteredIsComplement ==
    /\ (task = "resolve" /\ ~include_all_platforms /\ pc = "walk")
           => walk <= Len(platforms)
    /\ (task = "resolve" /\ pc = "done") =>
           /\ ~include_all_platforms =>
                 /\ walk = Len(platforms) + 1
                 /\ after.filtered = LockedRegistryIdents \ IncludedIdents(after.included)
           /\ after.filtered \cap IncludedIdents(after.included) = {}

\* C21 witness: a resolve in filter-to-platforms mode returned with one registry crate
\* included and another filtered
C21_Witness ==
    /\ task = "resolve"
    /\ pc = "done"
    /\ ~include_all_platforms
    /\ after.filtered # {}
    /\ after.included # EmptyMap


(***************************************************************************)
(* Claims about the reasons the walker records.  A reach path starts at a  *)
(* workspace default member and follows resolve edges; a development edge  *)
(* counts only as the first edge of the path.                              *)
(***************************************************************************)
\* a package as a reason names it: a local crate by its directory under the workspace
\* root, a registry crate by name and version
NodeIdent(id) ==
    IF PackageTable[id].source = None
    THEN [tag |-> "Local", path |-> SubSeq(PackageTable[id].manifest_path, 2, 2)]
    ELSE [tag |-> "CratesIo", name |-> PackageTable[id].name,
          version |-> PackageTable[id].version]

\* the reach paths of a metadata by what a reason tells of them: the package a path ends
\* in, its seed, its last node but one, whether it has no, one or more edges, the first
\* node after the seed and the first node after the seed that is not a local crate
PathSuccessors(metadata, s) ==
    LET deps == metadata.resolve[s.pkg].deps
        followed == {i \in 1..Len(deps) :
                        \E j \in 1..Len(deps[i].dep_kinds) :
                            s.edges = 0 \/ deps[i].dep_kinds[j].kind # "development"}
    IN {[pkg |-> deps[i].pkg,
         seed |-> s.seed,
         parent |-> Some(NodeIdent(s.pkg)),
         edges |-> IF s.edges = 0 THEN 1 ELSE 2,
         first |-> IF s.edges = 0 THEN Some(NodeIdent(deps[i].pkg)) ELSE s.first,
         first_registry |->
             IF s.first_registry # None THEN s.first_registry
             ELSE IF PackageTable[deps[i].pkg].source # None
                  THEN Some(NodeIdent(deps[i].pkg))
                  ELSE None] : i \in followed}

RECURSIVE PathClosure(_, _)
PathClosure(metadata, states) ==
    LET next == states \cup UNION {PathSuccessors(metadata, s) : s \in states}
    IN IF next = states THEN states ELSE PathClosure(metadata, next)

PathStates(metadata) ==
    LET members == get_workspace_default_members(metadata)
    IN PathClosure(metadata,
                   {[pkg |-> members[i], seed |-> members[i], parent |-> None, edges |-> 0,
                     first |-> None, first_registry |-> None] : i \in 1..Len(members)})

\* the reach paths to a package over the walks entered so far
PathsTo(id) ==
    UNION {{s \in PathStates(MetadataOfWalk(i)) : s.pkg = id /\ s.edges > 0} :
              i \in 1..(IF walk <= NumWalks THEN walk ELSE NumWalks)}

\* the manifest path of a seed, relative to the workspace root
SeedRoot(id) == Tail(PackageTable[id].manifest_path)

\* a recorded reason tells of a reach path, the intermediate root dependency being the
\* one the path gives
ReasonTellsOf(reason, s, intermediate) ==
    /\ reason.root = SeedRoot(s.seed)
    /\ reason.parent = s.parent.value
    /\ reason.intermediate_root_dependency = (IF s.edges = 1 THEN None ELSE intermediate)

\* the reasons recorded so far, each with the package it is recorded for
RecordedReasons ==
    UNION {{[id |-> IdOf(ident), reason |-> r] :
               r \in DOMAIN included[ident.name][ident.version].reasons} :
           ident \in IncludedIdents(included)}

\* C23: every reason recorded for a registry package tells of a reach path to it: root
\* is the manifest path of the path's seed, parent the node before the package, and
\* intermediate_root_dependency is absent exactly if the path is the one edge from the
\* seed and is otherwise the first node of the path that is not a workspace-local
\* crate.
C23_ReasonNamesFirstRegistryDependency ==
    task = "resolve" =>
        \A rec \in RecordedReasons :
            \E s \in PathsTo(rec.id) : ReasonTellsOf(rec.reason, s, s.first_registry)

\* C23, amended: every reason recorded for a registry package tells of a reach path to
\* it: root is the manifest path of the path's seed, parent the node before the
\* package, and intermediate_root_dependency is absent exactly if the path is the one
\* edge from the seed and is otherwise the first node of the path after the seed, be it
\* a registry crate or a workspace-local one.
C23_ReasonNamesFirstDependency ==
    task = "resolve" =>
        \A rec \in RecordedReasons :
            \E s \in PathsTo(rec.id) : ReasonTellsOf(rec.reason, s, s.first)

\* C23 witness: a reason recorded for a registry package names a workspace-local crate
\* as intermediate_root_dependency and a registry crate as parent
C23_Witness ==
    /\ task = "resolve"
    /\ \E rec \in RecordedReasons :
          /\ rec.reason.intermediate_root_dependency # None
          /\ rec.reason.intermediate_root_dependency.value.tag = "Local"
          /\ rec.reason.parent.tag = "CratesIo"


(***************************************************************************)
(* Claims about the edges the walker follows.                              *)
(***************************************************************************)
\* the kind a child gets from a parent of kind package_kind over the given edge kinds
KindOver(package_kind, kinds) ==
    LET mapped == [i \in 1..Len(kinds) |-> then(package_kind, KindFrom(kinds[i].kind))]
    IN ReduceMerged(mapped, 2, mapped[1])

\* whether the visit of the last item of the queue goes on to the package's edges
Explores(metadata, todo, inc) ==
    LET package == metadata.packages[todo.pkg]
        is_proc_macro == HasTargetKind(package, "proc-macro")
    IN \/ package.source = None
       \/ RecordVisit(inc, metadata, todo, package.name, package,
                      PackageKind(todo, is_proc_macro),
                      HasTargetKind(package, "custom-build"), is_proc_macro).explore

\* C24: in every iteration of the work loop that goes on to the package's edges, an
\* edge with a normal or build kind enqueues its child; the child's kind is the one
\* over the edge's normal and build kinds, or, only if the parent is a workspace crate,
\* the one over all the edge's kinds; and an edge with development kinds alone
\* enqueues nothing if the parent is not a workspace crate.  An iteration that does not
\* go on enqueues nothing.
C24_DevelopmentOnlyFromWorkspace ==
    [][resolve_platform_visit =>
          LET metadata == MetadataOfWalk(walk)
              todo == todos[Len(todos)]
              package == metadata.packages[todo.pkg]
              package_kind == PackageKind(todo, HasTargetKind(package, "proc-macro"))
              parent_in_workspace ==
                  \E i \in 1..Len(metadata.workspace_members) :
                      metadata.workspace_members[i] = todo.pkg
              pushed == SubSeq(todos', Len(todos), Len(todos'))
              deps == metadata.resolve[todo.pkg].deps
          IN IF ~Explores(metadata, todo, included) THEN pushed = <<>>
             ELSE \A i \in 1..Len(deps) :
                     LET every == deps[i].dep_kinds
                         always == SelectSeq(every, LAMBDA k : k.kind # "development")
                         enqueued == {j \in 1..Len(pushed) : pushed[j].pkg = deps[i].pkg}
                     IN /\ Cardinality(enqueued) <= 1
                        /\ always # <<>> =>
                              /\ enqueued # {}
                              /\ \A j \in enqueued :
                                    \/ pushed[j].kind = KindOver(package_kind, always)
                                    \/ /\ parent_in_workspace
                                       /\ pushed[j].kind = KindOver(package_kind, every)
                        /\ always = <<>> =>
                              IF parent_in_workspace
                              THEN \A j \in enqueued :
                                      pushed[j].kind = KindOver(package_kind, every)
                              ELSE enqueued = {}]_vars

\* C24 witness: the walk is over in a world where the seed has only a development edge
\* to p and p only a development edge to c: p is included for debug builds only (the
\* seed's edge was followed) and c is not included (p's edge was skipped)
C24_Witness ==
    /\ task = "resolve"
    /\ pc = "done"
    /\ world.wp = "D"
    /\ world.wl = "none"
    /\ world.pc = "D"
    /\ \E ident \in IncludedIdents(after.included) :
          /\ ident.name = "p"
          /\ after.included[ident.name][ident.version].kind.only_debug_builds
    /\ \A ident \in IncludedIdents(after.included) : ident.name # "c"


(***************************************************************************)
(* Claims about the edits in flight during the update loops.               *)
(***************************************************************************)
\* the crate names whose declarations differ between a manifest text and its baseline
EditedIn(text, baseline) ==
    {baseline[k].name : k \in {k \in 1..Len(baseline) : text[k] # baseline[k]}}

\* the crate names with an uncommitted difference, in memory or on disk
EditedNames ==
    UNION {EditedIn(disk[manifests[i].path], manifests[i].previous_contents)
           \cup EditedIn(DocumentToString(manifests[i].document),
                         manifests[i].previous_contents) : i \in 1..Len(manifests)}

\* the declarations of a crate name, per manifest, as the file has them and as the
\* document prints them
DeclarationsOf(files, fs, name) ==
    [i \in 1..Len(files) |->
        [file |-> SelectSeq(fs[files[i].path], LAMBDA e : e.name = name),
         document |-> SelectSeq(DocumentToString(files[i].document),
                                LAMBDA e : e.name = name)]]

\* the names of the candidates that were committed
CommittedNames ==
    {IF task = "major" THEN major_updates[i] ELSE major_updates[i].name :
        i \in 1..Len(major_updates)}

\* at most one crate's declarations are uncommitted, the candidate's, and none when a
\* candidate is about to be edited
OneEditedCandidate ==
    /\ Cardinality(EditedNames) <= 1
    /\ pc = "update_for" => EditedNames = {}
    /\ EditedNames # {} =>
          /\ candidate # None
          /\ "name" \in DOMAIN candidate.value
          /\ EditedNames = {candidate.value.name}

\* a step leaves the declarations of every committed candidate as they are
CommittedKept ==
    \A name \in CommittedNames :
        DeclarationsOf(manifests', disk', name) = DeclarationsOf(manifests, disk, name)

\* C25: throughout the split and the squashed update task the manifests differ from
\* their committed baselines, in memory and on disk, in the declarations of at most one
\* crate, the candidate at hand; they do not differ at all when a candidate is about to
\* be edited; and no step changes the declarations of a candidate that was committed.
C25_OneCandidateInFlight ==
    /\ [](task \in {"major", "squashed"} => OneEditedCandidate)
    /\ [][(task \in {"major", "squashed"}) => CommittedKept]_vars

\* C25 witness: one candidate was committed, the next one's edit is in the manifests
\* and is being tried
C25_Witness ==
    /\ task \in {"major", "squashed"}
    /\ pc = "try_update"
    /\ CommittedNames = {"c"}
    /\ EditedNames = {"p"}


(***************************************************************************)
(* Claims about the edits of ManifestSet.                                  *)
(***************************************************************************)
\* the version string of a mention in the given manifests
MentionLeaf(files, mention) ==
    LET document == files[mention.manifest_idx].document
    IN VersionLeaf(document[path_lookup(document, mention.toml_path).value])

\* the manifests but for the version string of a mention
ExceptMentionLeaf(files, mention) ==
    LET document == files[mention.manifest_idx].document
        at == path_lookup(document, mention.toml_path).value
    IN [files EXCEPT ![mention.manifest_idx].document[at] =
                         WithVersionLeaf(@, [decor |-> "", repr |-> None, value |-> <<>>]),
                     ![mention.manifest_idx].dirty = FALSE]

\* the requirement is one caret comparator
SingleCaret(version_req) ==
    /\ Len(version_req.comparators) = 1
    /\ version_req.comparators[1].op = "Caret"

\* the version string of the mention holds the requirement as printed, less the caret
\* of a single caret comparator, under the decoration it had; the mention records the
\* requirement; nothing else in the manifests differs
WrittenAs(files_before, mention_before, files, mention, version_req) ==
    LET printed == VersionReqToString(version_req)
        leaf == MentionLeaf(files, mention)
    IN /\ IF SingleCaret(version_req)
          THEN /\ printed[1].sigil = "caret"
               /\ leaf.value = <<[printed[1] EXCEPT !.sigil = ""]>>
          ELSE leaf.value = printed
       /\ leaf.decor = MentionLeaf(files_before, mention_before).decor
       /\ mention = [mention_before EXCEPT !.version = version_req]
       /\ ExceptMentionLeaf(files, mention) = ExceptMentionLeaf(files_before, mention_before)

\* C26: write_version_to_memory leaves at the mention's TOML path the requirement as
\* VersionReq prints it, with the leading caret removed if and only if the requirement
\* is exactly one comparator with the caret operator; the decoration of the string is
\* unchanged and the mention records the written requirement.
C26_WriteVersionToMemory ==
    (task = "ManifestSet" /\ Called("write_version_to_memory")) =>
        WrittenAs(args.manifests, args.mentions[args.which],
                  returned.manifests, returned.mention, args.written)

\* C26 witness: a requirement of two comparators, the first a caret one, was written
\* and kept its caret
C26_Witness ==
    /\ task = "ManifestSet"
    /\ Called("write_version_to_memory")
    /\ Len(args.written.comparators) = 2
    /\ MentionLeaf(returned.manifests, returned.mention).value[1].sigil = "caret"

\* the requirement `^version`
CaretOf(version) ==
    [comparators |-> <<[op |-> "Caret", major |-> version.major,
                        minor |-> Some(version.minor), patch |-> Some(version.patch),
                        pre |-> version.pre]>>]

\* the mentions in their order, each rewritten to `^version` if the version is a major
\* update for the requirement it had and left as it was if not; the mentions from the
\* first one on which is_major_update_for panics are not reached
EachRewritten(files_before, mentions_before, files, mentions, version) ==
    \A i \in 1..Len(mentions_before) :
        LET others == {j \in 1..Len(mentions_before) : j # i}
            was == mentions_before[i]
            reached == \A j \in 1..i :
                           is_major_update_for(mentions_before[j].version, version) # Panic
        IN IF reached /\ is_major_update_for(was.version, version) = Ok(TRUE)
           THEN /\ mentions[i] = [was EXCEPT !.version = CaretOf(version)]
                /\ MentionLeaf(files, mentions[i]).value
                       = <<[ComparatorToString(CaretOf(version).comparators[1])
                               EXCEPT !.sigil = ""]>>
                /\ files[was.manifest_idx].dirty
           ELSE /\ mentions[i] = was
                /\ MentionLeaf(files, was) = MentionLeaf(files_before, was)
                /\ files[was.manifest_idx].dirty
                       = (\/ files_before[was.manifest_idx].dirty
                          \/ \E j \in others :
                                /\ mentions_before[j].manifest_idx = was.manifest_idx
                                /\ mentions[j] # mentions_before[j])

\* C27: update_version_in_memory writes the requirement `^ver` for the mention if ver is
\* a major update for the requirement the mention had, and otherwise leaves the
\* manifests, dirty flags included, and the mention as they were;
\* update_versions_in_memory does so for each mention by itself, so that a mention for
\* which ver is not a major update keeps its requirement.
C27_UpdateOnlyMajor ==
    /\ (task = "ManifestSet" /\ Called("update_version_in_memory")) =>
          LET was == args.mentions[args.which]
          IN IF is_major_update_for(was.version, args.version) = Ok(TRUE)
             THEN WrittenAs(args.manifests, was, returned.manifests, returned.mention,
                            CaretOf(args.version))
             ELSE /\ returned.manifests = args.manifests
                  /\ returned.mention = was
    /\ (task = "ManifestSet" /\ Called("update_versions_in_memory")) =>
          EachRewritten(args.manifests, args.mentions, returned.manifests,
                        returned.mentions, args.version)

\* C27 witness: of two mentions of a crate the call rewrote one and kept the other
C27_Witness ==
    /\ task = "ManifestSet"
    /\ Called("update_versions_in_memory")
    /\ returned.result = "Ok"
    /\ \E i, j \in 1..Len(args.mentions) :
          /\ returned.mentions[i] # args.mentions[i]
          /\ returned.mentions[j] = args.mentions[j]


(***************************************************************************)
(* Claims about the dirty flag of MutableTomlFile.                         *)
(***************************************************************************)
\* C29: after open and any sequence of edits, write_back, commit and roll_back calls,
\* each of which may fail to write its file, a manifest whose dirty flag is clear has
\* on disk the text its document prints.
C29_CleanMeansWritten ==
    task = "manifests" =>
        \A i \in ManifestIndexes :
            ~manifests[i].dirty =>
                disk[manifests[i].path] = DocumentToString(manifests[i].document)


(***************************************************************************)
(* Claims about the newly included versions in a diff.                     *)
(***************************************************************************)
\* the positions of a list of the diff that report the given name and version
ReportedAt(list, name, version) ==
    {i \in 1..Len(list) : list[i].ident = SpecificCrateIdent(name, version)}

\* the names and versions that new.included holds and old.included does not
NewlyIncluded ==
    {ident \in IncludedIdents(after.included) :
        ~(/\ ident.name \in DOMAIN before.included
          /\ ident.version \in DOMAIN before.included[ident.name])}

\* C30: every (name, version) that is in new.included and not in old.included is
\* reported by Diff::between(old, new) exactly once, in the added list or in the
\* changed list.
C30_NewlyIncludedReportedOnce ==
    (task = "diff" /\ pc = "done") =>
        \A ident \in NewlyIncluded :
            Cardinality(ReportedAt(diff.added, ident.name, ident.version))
                + Cardinality(ReportedAt(diff.changed, ident.name, ident.version)) = 1

\* C30 witness: a diff reports one newly included version as added, its name being
\* new, and another as changed, its name having had an older version
C30_Witness ==
    /\ task = "diff"
    /\ pc = "done"
    /\ \E ident \in NewlyIncluded :
          ReportedAt(diff.added, ident.name, ident.version) # {}
    /\ \E ident \in NewlyIncluded :
          /\ ReportedAt(diff.changed, ident.name, ident.version) # {}
          /\ ident.name \in DOMAIN before.included


(***************************************************************************)
(* Claims about the order of the walks.                                    *)
(***************************************************************************)
\* the platform list walked last to first
ReversedPlatforms == [i \in 1..Len(platforms) |-> platforms[Len(platforms) + 1 - i]]

\* C28: the kind recorded for an included name and version is the same whether the
\* platforms are walked in the order given or in the reverse order.
C28_KindsIndependentOfPlatformOrder ==
    (task = "resolve" /\ pc = "done") =>
        LET reversed == resolve_from_path(world, ReversedPlatforms, include_all_platforms)
        IN \A ident \in IncludedIdents(after.included) \cap IncludedIdents(reversed.included) :
              after.included[ident.name][ident.version].kind
                  = reversed.included[ident.name][ident.version].kind

=============================================================================
